---- MODULE Spec2Model ----
(***************************************************************************)
(* Model of core/sequencer.py (class Sequencer and its helper functions):  *)
(* a recorder / player of timestamped note events driven by a millisecond  *)
(* clock.  Every public method is one action; the helper functions are     *)
(* operators computed the way the code computes them.                      *)
(***************************************************************************)
EXTENDS Integers, Sequences, FiniteSets, TLC

\* ---------------------------------------------------------------- bounds
\* Largest value of the host millisecond clock explored.
MaxClock == 3
\* Largest number of events recorded in one session.
MaxEvents == 3
MaxQueue == 1
MaxSleeps == 2
DummyEvents == 2
MaxPwmCalls == 5
MaxStall == 4

\* ------------------------------------------------------- input value sets
\* bpm arguments of the constructor and of set_bpm.  With 60000 // bpm as
\* the beat, 60000 gives a 1 ms beat and 70000 a 0 ms beat.
BpmArgs == {60000, 70000}
\* quantize_ms arguments of the constructor and of set_quantize / new_track.
QuantizeArgs == {-1, 2, 3}
\* beats_per_bar arguments of the constructor.
BeatsArgs == {2}

\* Sequencer.IDLE / RECORDING / PLAYING
IDLE == 0
RECORDING == 1
PLAYING == 2

\* Python's None; an optional integer v is held as <<v>>.
None == <<>>
Some(v) == <<v>>
Val(o) == o[1]

Max(a, b) == IF a >= b THEN a ELSE b

\* The value of `call` after any other call, and after a call that returned
\* at its state guard.
Other == [op |-> "other"]

VARIABLES
    clock,          \* value ticks_ms() returns now
    utime,          \* whether `from utime import ticks_ms, ticks_diff` succeeded (MicroPython)
    state,          \* self._state
    events,         \* self._events
    bpm,            \* self._bpm
    quantize_ms,    \* self._quantize_ms
    beats_per_bar,  \* self._beats_per_bar
    rec_t0_ms,      \* self._rec_t0_ms
    loop,           \* self._loop
    play_t0_ms,     \* self._play_t0_ms
    last_tick_ms,   \* self._last_tick_ms
    play_idx,       \* self._play_idx
    track_len_ms,   \* self._track_len_ms
    call,           \* the last call, if it was a start_recording or stop_playback, or a tick, record_event or
                    \* stop_recording that passed its state guard: its name, the state before
                    \* it (pre), what it read and returned; for a stop_playback that directly
                    \* follows a stop_playback, the state before that one (after); for a
                    \* stop_playback, the play_idx it found (idx)
    delivered,      \* concatenation of the batches returned by tick since the last start_playback
    sess            \* the playback session the batches belong to: the clock at its start (t0) and
                    \* at its last tick (last), its loop argument, whether tick was called in it

\* The sequencer's collaborators: ui/controller.py with mocks/mock_sequencer.py
\* and mocks/mock_hal_ui.py, storage/pattern_io.py, hal/pwm_audio.py.
VARIABLES
    ctl_state,      \* Controller.state
    led,            \* MockUI.led
    queue,          \* Controller._queue: (button, enqueue time) pairs
    last_press_ms,  \* Controller._last_press_ms
    pattern_name,   \* Controller._current_pattern_name
    seq_class,      \* the class of Controller.seq: "MockSequencer" or "Sequencer"
    polled,         \* the last poll: the press it took, whether it passed the debounce, the
                    \* controller state before it, the MockUI.log entries and the calls to
                    \* the sequencer and the store it made
    mock_events,    \* MockSequencer._events
    mock_recording, \* MockSequencer._recording
    mock_playing,   \* MockSequencer._playing
    files,          \* the files of PatternStore.base_dir: file name -> text written
    store_call,     \* the last direct call of the PatternStore API and its outcome
    pwm_calls,      \* the calls PWMAudio made on its PWM object, oldest first
    pwm_active,     \* PWMAudio._active
    pwm_freq,       \* PWMAudio._freq
    pwm_call        \* the last call made on the PWMAudio driver

seqVars == <<state, events, bpm, quantize_ms, beats_per_bar, rec_t0_ms, loop,
             play_t0_ms, last_tick_ms, play_idx, track_len_ms>>
uiVars == <<ctl_state, led, queue, last_press_ms, pattern_name, seq_class, polled,
            mock_events, mock_recording, mock_playing>>
storeVars == <<files, store_call>>
pwmVars == <<pwm_calls, pwm_active, pwm_freq, pwm_call>>
hostVars == <<uiVars, storeVars, pwmVars>>
vars == <<clock, utime, state, events, bpm, quantize_ms, beats_per_bar, rec_t0_ms, loop,
          play_t0_ms, last_tick_ms, play_idx, track_len_ms, call, delivered, sess, hostVars>>

\* ---------------------------------------------------------------- helpers

\* The period of utime.ticks_ms(): the counter wraps from TicksPeriod - 1 to 0.
TicksPeriod == 1073741824

\* The value of the utime counter when the sequencer is constructed.
UtimeBoot == TicksPeriod - 2

\* The milliseconds since the construction.
Age == IF utime THEN (clock - UtimeBoot) % TicksPeriod ELSE clock

\* The plain subtraction used with the wrapping counter too.
TicksDiffNaive(a, b) == a - b

\* utime.ticks_diff, the difference modulo the period read as a signed
\* number; a - b in the CPython fallback, whose clock does not wrap.
ticks_diff(a, b) ==
    IF utime
    THEN ((a - b + (TicksPeriod \div 2)) % TicksPeriod) - (TicksPeriod \div 2)
    ELSE a - b

\* The magnitude of the n-th note handed to record_event, a float held in
\* units of 0.00001: 0.12344 and 0.8 in turn.
InputMagnitude(n) == IF n % 2 = 0 THEN 12344 ELSE 80000

\* NoteEvent as record_event stores the n-th note handed to it in a session:
\* the track-relative timestamp t with the channel, magnitude, pitch and
\* duration of the note (seq: the pitch, which tells the notes of a session
\* apart; channel 0 and no duration).
NoteEvent(t, n) ==
    [channel |-> 0, timestamp_ms |-> t, magnitude |-> InputMagnitude(n),
     seq |-> n, duration_ms |-> None]

\* round(magnitude, 4) on magnitudes in units of 0.00001 (none of the
\* magnitudes used ends in a 5, where Python rounds to even)
Round4(m) == ((m + 5) \div 10) * 10

\* NoteEvent.to_row: [t, ch, mag, pitch, dur]
to_row(e) == <<e.timestamp_ms, e.channel, Round4(e.magnitude), e.seq, e.duration_ms>>

\* from_row reading the row as [ch, t, mag, pitch, dur], in the order of the
\* constructor's parameters.
FromRowChannelFirst(row) ==
    [channel |-> row[1], timestamp_ms |-> row[2], magnitude |-> row[3],
     seq |-> row[4], duration_ms |-> row[5]]

\* NoteEvent.from_row
from_row(row) ==
    [channel |-> row[2], timestamp_ms |-> row[1], magnitude |-> row[3],
     seq |-> row[4], duration_ms |-> row[5]]

\* _quantize without the half grid step added: rounds down.
QuantizeFloor(t_ms, q_ms) ==
    IF q_ms <= 0 THEN t_ms
    ELSE (t_ms \div q_ms) * q_ms

\* _quantize with a whole grid step added instead of half of one.
QuantizeNext(t_ms, q_ms) ==
    IF q_ms <= 0 THEN t_ms
    ELSE ((t_ms + q_ms) \div q_ms) * q_ms

_quantize(t_ms, q_ms) ==
    IF q_ms <= 0 THEN t_ms
    ELSE ((t_ms + (q_ms \div 2)) \div q_ms) * q_ms

\* _round_up rounding down: the last multiple of base at or before val.
RoundDown(val, base) ==
    IF base <= 0 THEN val
    ELSE (val \div base) * base

\* _round_up without the "- 1": an exact multiple is pushed one base further.
RoundUpPastExact(val, base) ==
    IF base <= 0 THEN val
    ELSE ((val + base) \div base) * base

_round_up(val, base) ==
    IF base <= 0 THEN val
    ELSE ((val + base - 1) \div base) * base

RECURSIVE bisect_loop(_, _, _, _)
bisect_loop(evs, t_ms, lo, hi) ==
    IF lo < hi
    THEN LET mid == (lo + hi) \div 2
         IN  IF evs[mid + 1].timestamp_ms <= t_ms
             THEN bisect_loop(evs, t_ms, mid + 1, hi)
             ELSE bisect_loop(evs, t_ms, lo, mid)
    ELSE lo

\* The binary search with "<" for "<=": the index of the first event not
\* earlier than t_ms (a bisect-left).
RECURSIVE bisect_left_loop(_, _, _, _)
bisect_left_loop(evs, t_ms, lo, hi) ==
    IF lo < hi
    THEN LET mid == (lo + hi) \div 2
         IN  IF evs[mid + 1].timestamp_ms < t_ms
             THEN bisect_left_loop(evs, t_ms, mid + 1, hi)
             ELSE bisect_left_loop(evs, t_ms, lo, mid)
    ELSE lo

BisectLeftByTime(evs, t_ms) == bisect_left_loop(evs, t_ms, 0, Len(evs))

\* _bisect_right_by_time: 0-based index of the first event later than t_ms
_bisect_right_by_time(evs, t_ms) == bisect_loop(evs, t_ms, 0, Len(evs))

\* Sequencer._beat_ms
_beat_ms(b) == 60000 \div Max(1, b)

\* Python slice events[a:b] with 0-based a, b in 0..len
Slice(evs, a, b) == IF a >= b THEN <<>> ELSE SubSeq(evs, a + 1, b)

\* list.insert(i, e) with 0-based i in 0..len
Insert(evs, i, e) == SubSeq(evs, 1, i) \o <<e>> \o SubSeq(evs, i + 1, Len(evs))

\* events[0] read for events[-1]: the timestamp of the earliest event.
LastTFirst(evs) == IF evs # <<>> THEN evs[1].timestamp_ms ELSE 0

\* self._events[-1].timestamp_ms if self._events else 0
LastT(evs) == IF evs # <<>> THEN evs[Len(evs)].timestamp_ms ELSE 0

\* ------------------------------------------------------ collaborators
\* The buttons the Controller handles.
Buttons == {"REC", "PLAY", "STOP", "SAVE", "LOAD"}

\* MockUI.led
Leds == {"REC", "PLAY", "ERR", "SAVE", "LOAD"}

\* A dict: a function whose domain is the set of its keys.
EmptyDict == << >>
Get(d, k, default) == IF k \in DOMAIN d THEN d[k] ELSE default
Put(d, k, v) == [x \in (DOMAIN d) \cup {k} |-> IF x = k THEN v ELSE d[x]]

\* Controller._current_pattern_name at construction: "take1"
Take1 == <<"t", "a", "k", "e", "1">>

\* Controller.__init__, MockUI.__init__, MockSequencer.__init__,
\* PatternStore.__init__ on an empty directory, PWMAudio.__init__
\* The controller, its collaborators and the drivers after construction,
\* with a sequencer of the class cls handed to Controller.__init__
HostInitOf(cls) ==
    /\ seq_class = cls
    /\ ctl_state = "IDLE"
    /\ led = [n \in Leds |-> FALSE]
    /\ queue = <<>>
    /\ last_press_ms = EmptyDict
    /\ pattern_name = Take1
    /\ polled = Other
    /\ mock_events = <<>>
    /\ mock_recording = FALSE
    /\ mock_playing = FALSE
    /\ files = EmptyDict
    /\ store_call = Other
    /\ pwm_calls = << <<"duty", 0>> >>
    /\ pwm_active = FALSE
    /\ pwm_freq = 0
    /\ pwm_call = Other

\* The test bench: the controller drives a MockSequencer.
HostInit == HostInitOf("MockSequencer")

\* ------------------------------------------------------- PatternStore
\* The characters of the pattern names used, with their code points (the
\* order of list.sort on file names).
CharCode == [c \in {" ", "-", "1", ":", "_", "a", "b", "d", "e", "i", "k", "l", "n", "t", "u"} |->
    CASE c = " " -> 32 [] c = "-" -> 45 [] c = "1" -> 49 [] c = ":" -> 58 [] c = "_" -> 95
      [] c = "a" -> 97 [] c = "b" -> 98 [] c = "d" -> 100 [] c = "e" -> 101 [] c = "i" -> 105
      [] c = "k" -> 107 [] c = "l" -> 108 [] c = "n" -> 110 [] c = "t" -> 116 [] c = "u" -> 117]

\* str.isalnum on one of these characters
IsAlnum(c) == c \in {"1", "a", "b", "d", "e", "i", "k", "l", "n", "t", "u"}

\* str.strip(chars): the string without its leading and trailing chars of cs
RECURSIVE StripLeft(_, _)
StripLeft(str, cs) ==
    IF str # <<>> /\ Head(str) \in cs THEN StripLeft(Tail(str), cs) ELSE str

RECURSIVE StripRight(_, _)
StripRight(str, cs) ==
    IF str # <<>> /\ str[Len(str)] \in cs
    THEN StripRight(SubSeq(str, 1, Len(str) - 1), cs)
    ELSE str

Strip(str, cs) == StripRight(StripLeft(str, cs), cs)

Untitled == <<"u", "n", "t", "i", "t", "l", "e", "d">>

\* _sanitize_name
_sanitize_name(name) ==
    LET stripped == Strip(name, {" "})
        safe == [i \in 1..Len(stripped) |->
                    IF IsAlnum(stripped[i]) \/ stripped[i] \in {"-", "_"}
                    THEN stripped[i] ELSE "_"]
        out == Strip(safe, {"_"})
    IN  IF out # <<>> THEN out ELSE Untitled

\* PatternStore._path_for: the file of a pattern, as (base name, suffix)
_path_for(name) == <<_sanitize_name(name), ".json">>

\* a < b in the order of Python strings
RECURSIVE StrLess(_, _)
StrLess(a, b) ==
    IF b = <<>> THEN FALSE
    ELSE IF a = <<>> THEN TRUE
    ELSE IF Head(a) = Head(b) THEN StrLess(Tail(a), Tail(b))
    ELSE CharCode[Head(a)] < CharCode[Head(b)]

\* sorted(S) for a set of strings
RECURSIVE Sorted(_)
Sorted(S) ==
    IF S = {} THEN <<>>
    ELSE LET least == CHOOSE a \in S : \A b \in S \ {a} : StrLess(a, b)
         IN  <<least>> \o Sorted(S \ {least})

\* PatternStore.list_patterns on the directory fl
list_patterns(fl) == Sorted({k[1] : k \in {x \in DOMAIN fl : x[2] = ".json"}})

\* json.dumps of the payload save builds: the text of a pattern file.
JsonText(saved_ms, metadata, rows) ==
    [text |-> "json", version |-> 1, saved_ms |-> saved_ms,
     metadata |-> metadata, events |-> rows]

\* The text a test writes into a file to corrupt it: "{not json}"
CorruptText == [text |-> "{not json}"]

\* save that keeps the content a file already has.
SaveKeepsExisting(fl, name, metadata, rows, now) ==
    IF rows = <<>>
    THEN [raised |-> "ValueError", files |-> fl]
    ELSE [raised |-> "",
          files |-> IF _path_for(name) \in DOMAIN fl THEN fl
                    ELSE Put(fl, _path_for(name), JsonText(now, metadata, rows))]

\* PatternStore.save(name, metadata, events) on the directory fl at clock
\* now: the exception raised, if any, and the directory afterwards.
save(fl, name, metadata, rows, now) ==
    IF rows = <<>>
    THEN [raised |-> "ValueError", files |-> fl]
    ELSE [raised |-> "",
          files |-> Put(fl, _path_for(name), JsonText(now, metadata, rows))]

\* PatternStore.load(name): the exception raised, if any, and the
\* (metadata, events) returned.
load(fl, name) ==
    IF _path_for(name) \notin DOMAIN fl
    THEN [raised |-> "FileNotFoundError"]
    ELSE LET txt == fl[_path_for(name)]
         IN  IF txt.text # "json"
             THEN [raised |-> "IOError"]
             ELSE [raised |-> "", metadata |-> txt.metadata, events |-> txt.events]

\* PatternStore.delete(name): the directory afterwards
delete(fl, name) == [k \in (DOMAIN fl) \ {_path_for(name)} |-> fl[k]]

\* The temporary file of a save: final + ".tmp"
TmpPath(name) == <<_sanitize_name(name), ".json.tmp">>

\* The content of a file whose write stopped part-way.
PartialText == [text |-> "{\"version\": 1, \"sa"]

\* os.remove(path) with its OSError ignored: the directory afterwards
Remove(fl, path) == [k \in (DOMAIN fl) \ {path} |-> fl[k]]

\* The file system calls of a save that can raise OSError; "" is none.
SaveFaults == {"", "open", "write", "replace", "remove", "rename"}

\* The safe write of PatternStore.save: the text data is written to the
\* temporary file, which then takes the place of the final file, by
\* os.replace where the build has it (has_replace) and by os.remove and
\* os.rename where it has not. The call named by fault raises OSError. The
\* result is the exception raised, if any, and the directory afterwards.
safe_write(fl, name, data, has_replace, fault) ==
    LET final == _path_for(name)
        tmp == TmpPath(name)
    IN  IF fault = "open"
        THEN [raised |-> "OSError", files |-> Remove(fl, tmp)]
        ELSE IF fault = "write"
        THEN [raised |-> "OSError", files |-> Remove(Put(fl, tmp, PartialText), tmp)]
        ELSE LET written == Put(fl, tmp, data)
             IN  IF has_replace
                 THEN IF fault = "replace"
                      THEN [raised |-> "OSError",
                            files |-> Remove(Remove(written, tmp), tmp)]
                      ELSE [raised |-> "",
                            files |-> Remove(Put(Remove(written, tmp), final, data), tmp)]
                 ELSE LET removed == IF fault = "remove" THEN written
                                     ELSE Remove(written, final)
                      IN  IF fault = "rename"
                          THEN [raised |-> "OSError",
                                files |-> Remove(Remove(removed, tmp), tmp)]
                          ELSE [raised |-> "",
                                files |-> Remove(Put(Remove(removed, tmp), final, data), tmp)]

\* ---------------------------------------------------------- Controller
DEBOUNCE_MS == 120

\* MockSequencer.inject_dummy_events(n): n notes 250 ms apart
inject_dummy_events(n) ==
    [i \in 1..n |-> [channel |-> 0, timestamp_ms |-> (i - 1) * 250,
                     magnitude |-> 80000, seq |-> 59 + i, duration_ms |-> None]]

\* MockSequencer.has_content
has_content == Len(mock_events) > 0

\* MockSequencer.export_events_rows
MockExportRows == [i \in 1..Len(mock_events) |-> to_row(mock_events[i])]

\* MockSequencer.import_events_rows(rows): the events it holds afterwards
MockImportRows(rows) == [i \in 1..Len(rows) |-> from_row(rows[i])]

\* MockUI.set_led(name, on): the entry it appends to MockUI.log
LedLog(name, on) == <<"LED", name, on>>

\* MockUI.flash(name, times): the entries it appends to MockUI.log
RECURSIVE flash(_, _)
flash(name, times) ==
    IF times = 0 THEN <<>>
    ELSE <<LedLog(name, TRUE), LedLog(name, FALSE)>> \o flash(name, times - 1)

\* The LEDs after the log entries lg are applied to the LEDs l
RECURSIVE LedsAfter(_, _)
LedsAfter(l, lg) ==
    IF lg = <<>> THEN l
    ELSE LedsAfter([l EXCEPT ![Head(lg)[2]] = Head(lg)[3]], Tail(lg))

\* What one handler of poll leaves: controller state, the calls it made on
\* the sequencer and the store, the MockUI log entries, the mock sequencer's
\* fields, the directory and the current pattern name.
Handled(st, calls, lg, rec, play, ev, fl, pname) ==
    [state |-> st, calls |-> calls, log |-> lg, recording |-> rec,
     playing |-> play, events |-> ev, files |-> fl, pattern |-> pname]

\* _error_blink that stops after its first assignment: the state stays ERROR.
ErrorBlinkStaysError(calls) ==
    Handled("ERROR", calls, flash("ERR", 3), mock_recording, mock_playing,
            mock_events, files, pattern_name)

\* Controller._error_blink after the calls made so far: ERROR, three ERR
\* flashes, IDLE; nothing else is touched.
_error_blink(calls) ==
    Handled("IDLE", calls, flash("ERR", 3), mock_recording, mock_playing,
            mock_events, files, pattern_name)

\* REC press that starts a recording in every state.
OnRecAlwaysStart ==
    Handled("RECORDING", <<"start_recording">>,
            <<LedLog("REC", TRUE), LedLog("PLAY", FALSE)>>,
            TRUE, mock_playing, mock_events, files, pattern_name)

\* REC press
OnRec ==
    IF ctl_state # "RECORDING"
    THEN Handled("RECORDING", <<"start_recording">>,
                 <<LedLog("REC", TRUE), LedLog("PLAY", FALSE)>>,
                 TRUE, mock_playing, mock_events, files, pattern_name)
    ELSE Handled("IDLE", <<"stop_recording">>, <<LedLog("REC", FALSE)>>,
                 FALSE, mock_playing, mock_events, files, pattern_name)

\* PLAY press that starts playback whether or not there is content.
OnPlayUnchecked ==
    IF ctl_state # "PLAYING"
    THEN Handled("PLAYING", <<"has_content", "start_playback">>,
                 <<LedLog("PLAY", TRUE), LedLog("REC", FALSE)>>,
                 mock_recording, TRUE, mock_events, files, pattern_name)
    ELSE Handled("IDLE", <<"stop_playback">>, <<LedLog("PLAY", FALSE)>>,
                 mock_recording, FALSE, mock_events, files, pattern_name)

\* PLAY press
OnPlay ==
    IF ctl_state # "PLAYING"
    THEN IF has_content
         THEN Handled("PLAYING", <<"has_content", "start_playback">>,
                      <<LedLog("PLAY", TRUE), LedLog("REC", FALSE)>>,
                      mock_recording, TRUE, mock_events, files, pattern_name)
         ELSE _error_blink(<<"has_content">>)
    ELSE Handled("IDLE", <<"stop_playback">>, <<LedLog("PLAY", FALSE)>>,
                 mock_recording, FALSE, mock_events, files, pattern_name)

\* STOP press that leaves a recording running.
OnStopPlaybackOnly ==
    Handled("IDLE", <<"stop_playback", "panic_all_notes_off">>,
            <<LedLog("PLAY", FALSE), LedLog("REC", FALSE)>>,
            mock_recording, FALSE, mock_events, files, pattern_name)

\* STOP press
OnStop ==
    Handled("IDLE", <<"stop_playback", "stop_recording", "panic_all_notes_off">>,
            <<LedLog("PLAY", FALSE), LedLog("REC", FALSE)>>,
            FALSE, FALSE, mock_events, files, pattern_name)

\* SAVE press that writes the pattern whatever the rows are.
OnSaveUnchecked(now) ==
    Handled(ctl_state, <<"export_events_rows", "get_bpm", "get_channels", "save">>,
            flash("SAVE", 2), mock_recording, mock_playing, mock_events,
            Put(files, _path_for(pattern_name),
                JsonText(now, [bpm |-> 120, channels |-> 1], MockExportRows)),
            pattern_name)

\* SAVE press at clock now
OnSave(now) ==
    IF MockExportRows = <<>>
    THEN _error_blink(<<"export_events_rows">>)
    ELSE LET saved == save(files, pattern_name, [bpm |-> 120, channels |-> 1],
                           MockExportRows, now)
             calls == <<"export_events_rows", "get_bpm", "get_channels", "save">>
         IN  IF saved.raised # ""
             THEN _error_blink(calls)
             ELSE Handled(ctl_state, calls, flash("SAVE", 2), mock_recording,
                          mock_playing, mock_events, saved.files, pattern_name)

\* LOAD press
OnLoad ==
    LET names == list_patterns(files)
    IN  IF names = <<>>
        THEN _error_blink(<<"list_patterns">>)
        ELSE LET loaded == load(files, names[1])
             IN  IF loaded.raised # ""
                 THEN _error_blink(<<"list_patterns", "load">>)
                 ELSE Handled(ctl_state,
                              <<"list_patterns", "load", "import_events_rows">>,
                              flash("LOAD", 2), mock_recording, mock_playing,
                              MockImportRows(loaded.events), files, names[1])

\* A press of a button poll does not know
OnUnknown ==
    Handled(ctl_state, <<>>, <<>>, mock_recording, mock_playing, mock_events,
            files, pattern_name)

\* The handler poll runs for an accepted press of name at clock now
OnPress(name, now) ==
    CASE name = "REC" -> OnRec
      [] name = "PLAY" -> OnPlay
      [] name = "STOP" -> OnStop
      [] name = "SAVE" -> OnSave(now)
      [] name = "LOAD" -> OnLoad
      [] OTHER -> OnUnknown

\* poll's debounce test that accepts every press.
DebouncedNever(name, t) == FALSE

\* poll's debounce test: the press of name stamped t is discarded
Debounced(name, t) == t - Get(last_press_ms, name, 0) < DEBOUNCE_MS

\* Controller.enqueue_button(name)
enqueue_button(name) ==
    /\ Len(queue) < MaxQueue
    /\ queue' = Append(queue, <<name, clock>>)
    /\ UNCHANGED <<clock, utime, seqVars, call, delivered, sess, ctl_state, led,
                   last_press_ms, pattern_name, seq_class, polled, mock_events,
                   mock_recording, mock_playing, storeVars, pwmVars>>

EnqueueButton == \E name \in Buttons : enqueue_button(name)

\* The exception a press of name raises in its handler when the controller
\* drives the MockSequencer: only the store's load of a corrupt file does.
PollRaised(name) ==
    IF name = "LOAD" /\ list_patterns(files) # <<>>
    THEN load(files, list_patterns(files)[1]).raised
    ELSE ""

\* Controller.poll with the handler's outcome h and the exception exc it
\* caught given: pop, debounce, handler, except clause.
Polling(h, exc) ==
    /\ queue # <<>>
    /\ LET name == Head(queue)[1]
           t == Head(queue)[2]
       IN  /\ queue' = Tail(queue)
           /\ IF Debounced(name, t)
              THEN /\ polled' = [op |-> "poll", name |-> name,
                                 accepted |-> FALSE, pre |-> ctl_state,
                                 content |-> has_content, calls |-> <<>>,
                                 log |-> <<>>, raised |-> ""]
                   /\ UNCHANGED <<ctl_state, led, last_press_ms, pattern_name,
                                  mock_events, mock_recording, mock_playing,
                                  files>>
              ELSE /\ last_press_ms' = Put(last_press_ms, name, t)
                   /\ ctl_state' = h.state
                   /\ led' = LedsAfter(led, h.log)
                   /\ pattern_name' = h.pattern
                   /\ mock_events' = h.events
                   /\ mock_recording' = h.recording
                   /\ mock_playing' = h.playing
                   /\ files' = h.files
                   /\ polled' = [op |-> "poll", name |-> name,
                                 accepted |-> TRUE, pre |-> ctl_state,
                                 content |-> has_content, calls |-> h.calls,
                                 log |-> h.log, raised |-> exc]
    /\ store_call' = Other
    /\ UNCHANGED <<clock, utime, pwmVars, seq_class>>

\* Controller.poll
poll ==
    /\ Polling(OnPress(Head(queue)[1], clock), PollRaised(Head(queue)[1]))
    /\ UNCHANGED <<seqVars, call, delivered, sess>>

\* The test's inject_dummy_events on the mock sequencer
InjectDummyEvents ==
    /\ mock_events = <<>>
    /\ mock_events' = mock_events \o inject_dummy_events(DummyEvents)
    /\ polled' = Other
    /\ UNCHANGED <<clock, utime, seqVars, call, delivered, sess, ctl_state, led,
                   queue, last_press_ms, pattern_name, seq_class, mock_recording,
                   mock_playing, storeVars, pwmVars>>

\* utime.sleep_ms between presses, one debounce window at a time
Sleep ==
    /\ clock < MaxSleeps * DEBOUNCE_MS
    /\ clock' = clock + DEBOUNCE_MS
    /\ UNCHANGED <<utime, seqVars, call, delivered, sess, hostVars>>

\* ---------------------------------------------------------------- Init
\* Sequencer.__init__(bpm, quantize_ms, beats_per_bar)
SeqInit ==
    /\ clock = 0
    /\ utime = FALSE
    /\ state = IDLE
    /\ events = <<>>
    /\ bpm \in BpmArgs
    /\ \E q \in QuantizeArgs : quantize_ms = Max(0, q)
    /\ \E b \in BeatsArgs : beats_per_bar = Max(1, b)
    /\ rec_t0_ms = None
    /\ loop = TRUE
    /\ play_t0_ms = None
    /\ last_tick_ms = None
    /\ play_idx = 0
    /\ track_len_ms = 0
    /\ call = Other
    /\ delivered = <<>>
    /\ sess = None

Init == SeqInit /\ HostInit

\* The host clock moves forward between two calls.
Advance ==
    /\ Age < MaxClock
    /\ clock' = IF utime THEN (clock + 1) % TicksPeriod ELSE clock + 1
    /\ call' = Other
    /\ UNCHANGED <<utime, hostVars, seqVars, delivered, sess>>

\* ------------------------------------------------------------ playback
\* stop_playback without its "if self._state == PLAYING": any state becomes IDLE.
StopAnyState(st) == IDLE

\* The state stop_playback leaves: only a playback is stopped.
stop_playback_state(st) == IF st = PLAYING THEN IDLE ELSE st

\* The looping branch taking equal phases for a wrap: a whole loop is
\* replayed when the tick falls on the phase of the previous one.
LoopDueWrapOnEqual(evs, prev_in, t_in) ==
    IF t_in > prev_in
    THEN Slice(evs, _bisect_right_by_time(evs, prev_in), _bisect_right_by_time(evs, t_in))
    ELSE Slice(evs, _bisect_right_by_time(evs, prev_in), Len(evs))
         \o Slice(evs, 0, _bisect_right_by_time(evs, t_in))

\* The wrap branch with the two slices in list order: head before tail.
LoopDueHeadFirst(evs, prev_in, t_in) ==
    IF t_in >= prev_in
    THEN Slice(evs, _bisect_right_by_time(evs, prev_in), _bisect_right_by_time(evs, t_in))
    ELSE Slice(evs, 0, _bisect_right_by_time(evs, t_in))
         \o Slice(evs, _bisect_right_by_time(evs, prev_in), Len(evs))

\* The looping branch of tick: the batch due between the phases prev_in and t_in.
LoopDue(evs, prev_in, t_in) ==
    IF t_in >= prev_in
    THEN Slice(evs, _bisect_right_by_time(evs, prev_in), _bisect_right_by_time(evs, t_in))
    ELSE Slice(evs, _bisect_right_by_time(evs, prev_in), Len(evs))
         \o Slice(evs, 0, _bisect_right_by_time(evs, t_in))

\* The while loop with "<" for "<=": an event is held back until its
\* timestamp has passed.
RECURSIVE NonLoopIdxStrict(_, _, _)
NonLoopIdxStrict(evs, idx, elapsed) ==
    IF idx < Len(evs) /\ evs[idx + 1].timestamp_ms < elapsed
    THEN NonLoopIdxStrict(evs, idx + 1, elapsed)
    ELSE idx

\* The while loop of the non-looping branch of tick: the cursor after it.
RECURSIVE NonLoopIdx(_, _, _)
NonLoopIdx(evs, idx, elapsed) ==
    IF idx < Len(evs) /\ evs[idx + 1].timestamp_ms <= elapsed
    THEN NonLoopIdx(evs, idx + 1, elapsed)
    ELSE idx

\* The end test of tick without its loop condition: a looping playback
\* stops past the last event as well.
AtEndIgnoresLoop(idx, n, lp) == idx >= n

\* The test after the while loop with ">" for ">=".
AtEndStrict(idx, n, lp) == idx > n /\ ~lp

\* The test after the while loop: a non-looping track is over.
AtEnd(idx, n, lp) == idx >= n /\ ~lp

\* What tick(now) returns in the state given by the arguments.
TickOut(st, evs, lp, len, t0, last, idx, now) ==
    IF st # PLAYING \/ t0 = None \/ evs = <<>> THEN <<>>
    ELSE LET prev_last == IF last # None THEN Val(last) ELSE now
             elapsed == ticks_diff(now, Val(t0))
         IN  IF lp /\ len > 0
             THEN LoopDue(evs, ticks_diff(prev_last, Val(t0)) % len, elapsed % len)
             ELSE Slice(evs, idx, NonLoopIdx(evs, idx, elapsed))

\* The session bookkeeping of a tick at `now` returning `out`: the session
\* goes on while the ticks do not go back in time and, when it loops, come
\* less than one loop period apart.
SessAfterTick(now, out) ==
    IF sess = None THEN None
    ELSE LET s == Val(sess)
         IN  IF now < s.last \/ (s.loop /\ now - s.last >= track_len_ms)
             THEN None
             ELSE Some([s EXCEPT !.last = now, !.ticked = TRUE])

\* tick on an empty looping track that moves play_t0_ms by one period only.
EmptyLoopOnePeriod(t0, len, now) ==
    IF ticks_diff(now, t0) >= len THEN t0 + len ELSE t0

\* tick on an empty looping track of length len > 0: the play_t0_ms it
\* leaves, moved by the whole periods elapsed at the clock now.
EmptyLoopT0(t0, len, now) ==
    IF ticks_diff(now, t0) >= len
    THEN t0 + (ticks_diff(now, t0) \div len) * len
    ELSE t0

\* Sequencer.tick(now_ms); now_ms = None reads the clock
tick(now_ms) ==
    LET now == IF now_ms = None THEN clock ELSE Val(now_ms)
        out == TickOut(state, events, loop, track_len_ms, play_t0_ms, last_tick_ms, play_idx, now)
        s2  == SessAfterTick(now, out)
    IN
    /\ call' = IF state # PLAYING \/ play_t0_ms = None
               THEN Other
               ELSE [op |-> "tick", pre |-> state, now |-> now, prev |-> last_tick_ms,
                     t0 |-> play_t0_ms, out |-> out]
    /\ sess' = s2
    /\ delivered' = IF s2 = None THEN <<>> ELSE delivered \o out
    /\ IF state # PLAYING \/ play_t0_ms = None
       THEN UNCHANGED <<clock, utime, hostVars, seqVars>>
       ELSE
        /\ UNCHANGED <<clock, utime, hostVars, events, bpm, quantize_ms, beats_per_bar, rec_t0_ms, loop, track_len_ms>>
        /\ IF events = <<>>
           THEN /\ last_tick_ms' = Some(now)
                /\ play_t0_ms' =
                     IF loop /\ track_len_ms > 0
                     THEN Some(EmptyLoopT0(Val(play_t0_ms), track_len_ms, now))
                     ELSE play_t0_ms
                /\ UNCHANGED <<state, play_idx>>
           ELSE IF loop /\ track_len_ms > 0
           THEN /\ last_tick_ms' = Some(now)
                /\ play_idx' = _bisect_right_by_time(events,
                                   ticks_diff(now, Val(play_t0_ms)) % track_len_ms)
                /\ UNCHANGED <<state, play_t0_ms>>
           ELSE LET idx2 == NonLoopIdx(events, play_idx, ticks_diff(now, Val(play_t0_ms)))
                IN  IF AtEnd(idx2, Len(events), loop)
                    THEN \* self.stop_playback()
                         /\ state' = IDLE
                         /\ play_t0_ms' = None
                         /\ last_tick_ms' = None
                         /\ play_idx' = 0
                    ELSE /\ last_tick_ms' = Some(now)
                         /\ play_idx' = idx2
                         /\ UNCHANGED <<state, play_t0_ms>>

\* The control loop passes the clock it has just read, or nothing.
Tick == \E now_ms \in {None, Some(clock)} : tick(now_ms)

\* Sequencer.start_playback(loop)
start_playback(lp) ==
    /\ loop' = lp
    /\ play_idx' = 0
    /\ play_t0_ms' = Some(clock)
    /\ last_tick_ms' = Some(clock)
    /\ track_len_ms' = IF track_len_ms <= 0 THEN LastT(events) ELSE track_len_ms
    /\ state' = PLAYING
    /\ call' = Other
    /\ sess' = Some([t0 |-> clock, loop |-> lp, last |-> clock, ticked |-> FALSE])
    /\ delivered' = <<>>
    /\ UNCHANGED <<clock, utime, hostVars, events, bpm, quantize_ms, beats_per_bar, rec_t0_ms>>

StartPlayback == \E lp \in BOOLEAN : start_playback(lp)

\* stop_playback that only leaves the PLAYING state: the cursors stay.
StopPlaybackStateOnly ==
    /\ state' = stop_playback_state(state)
    /\ call' = [op |-> "stop_playback", pre |-> state, idx |-> play_idx,
                after |-> IF call.op = "stop_playback" THEN Some(call.pre) ELSE None]
    /\ sess' = None
    /\ delivered' = <<>>
    /\ UNCHANGED <<clock, utime, hostVars, events, bpm, quantize_ms, beats_per_bar, rec_t0_ms, loop,
                   track_len_ms, play_t0_ms, last_tick_ms, play_idx>>

\* stop_playback that leaves the event cursor where the playback had it.
StopPlaybackKeepsIdx ==
    /\ state' = stop_playback_state(state)
    /\ play_t0_ms' = None
    /\ last_tick_ms' = None
    /\ call' = [op |-> "stop_playback", pre |-> state, idx |-> play_idx,
                after |-> IF call.op = "stop_playback" THEN Some(call.pre) ELSE None]
    /\ sess' = None
    /\ delivered' = <<>>
    /\ UNCHANGED <<clock, utime, hostVars, events, bpm, quantize_ms, beats_per_bar, rec_t0_ms, loop,
                   track_len_ms, play_idx>>

\* Sequencer.stop_playback()
stop_playback ==
    /\ state' = stop_playback_state(state)
    /\ play_t0_ms' = None
    /\ last_tick_ms' = None
    /\ play_idx' = 0
    /\ call' = [op |-> "stop_playback", pre |-> state, idx |-> play_idx,
                after |-> IF call.op = "stop_playback" THEN Some(call.pre) ELSE None]
    /\ sess' = None
    /\ delivered' = <<>>
    /\ UNCHANGED <<clock, utime, hostVars, events, bpm, quantize_ms, beats_per_bar, rec_t0_ms, loop, track_len_ms>>

\* ------------------------------------------------------------ recording
\* start_recording without its stop_playback() call: the playback cursors
\* are left as they were.
StartRecordingNoStop ==
    /\ events' = <<>>
    /\ rec_t0_ms' = Some(clock)
    /\ state' = RECORDING
    /\ track_len_ms' = 0
    /\ call' = [op |-> "start_recording", pre |-> state]
    /\ sess' = None
    /\ delivered' = <<>>
    /\ UNCHANGED <<clock, utime, hostVars, bpm, quantize_ms, beats_per_bar, loop,
                   play_t0_ms, last_tick_ms, play_idx>>

\* Sequencer.start_recording()
start_recording ==
    /\ play_t0_ms' = None
    /\ last_tick_ms' = None
    /\ play_idx' = 0
    /\ events' = <<>>
    /\ rec_t0_ms' = Some(clock)
    /\ state' = RECORDING
    /\ track_len_ms' = 0
    /\ call' = [op |-> "start_recording", pre |-> state]
    /\ sess' = None
    /\ delivered' = <<>>
    /\ UNCHANGED <<clock, utime, hostVars, bpm, quantize_ms, beats_per_bar, loop>>

\* Sequencer.stop_recording()
stop_recording ==
    /\ call' = IF state # RECORDING THEN Other ELSE [op |-> "stop_recording", pre |-> state]
    /\ IF state # RECORDING
       THEN UNCHANGED <<state, track_len_ms>>
       ELSE /\ state' = IDLE
            /\ track_len_ms' =
                 IF loop THEN _round_up(LastT(events), _beat_ms(bpm) * beats_per_bar)
                 ELSE LastT(events)
    /\ UNCHANGED <<clock, utime, hostVars, events, bpm, quantize_ms, beats_per_bar, rec_t0_ms, loop,
                   play_t0_ms, last_tick_ms, play_idx, delivered, sess>>

\* record_event without the ordered insert: every event is appended.
StoredAppended(evs, e) == Append(evs, e)

\* record_event with the insert position found by a bisect-left: the event
\* goes before the stored events of the same timestamp.
StoredBeforeTies(evs, e) ==
    IF evs = <<>> \/ e.timestamp_ms >= evs[Len(evs)].timestamp_ms
    THEN Append(evs, e)
    ELSE Insert(evs, BisectLeftByTime(evs, e.timestamp_ms), e)

\* The list record_event leaves when it stores the event e.
Stored(evs, e) ==
    IF evs = <<>> \/ e.timestamp_ms >= evs[Len(evs)].timestamp_ms
    THEN Append(evs, e)
    ELSE Insert(evs, _bisect_right_by_time(evs, e.timestamp_ms), e)

\* The timestamp record_event gives an event that arrives rel ms into the track.
Stamp(rel, q) == IF q > 0 THEN _quantize(rel, q) ELSE rel

\* record_event with only the rec_t0_ms half of its guard: an event is
\* stored whenever a recording was ever started.
RecordEventAnyState ==
    IF rec_t0_ms = None
    THEN /\ call' = Other
         /\ UNCHANGED <<clock, utime, hostVars, seqVars, delivered, sess>>
    ELSE LET rel == ticks_diff(clock, Val(rec_t0_ms))
             e   == NoteEvent(Stamp(rel, quantize_ms), Len(events))
         IN  /\ Len(events) < MaxEvents
             /\ events' = Stored(events, e)
             /\ call' = [op |-> "record_event", pre |-> state]
             /\ UNCHANGED <<clock, utime, hostVars, state, bpm, quantize_ms, beats_per_bar, rec_t0_ms, loop,
                            play_t0_ms, last_tick_ms, play_idx, track_len_ms, delivered, sess>>

\* Sequencer.record_event(event)
record_event ==
    IF state # RECORDING \/ rec_t0_ms = None
    THEN /\ call' = Other
         /\ UNCHANGED <<clock, utime, hostVars, seqVars, delivered, sess>>
    ELSE LET rel == ticks_diff(clock, Val(rec_t0_ms))
             e   == NoteEvent(Stamp(rel, quantize_ms), Len(events))
         IN  /\ Len(events) < MaxEvents
             /\ events' = Stored(events, e)
             /\ call' = [op |-> "record_event", pre |-> state]
             /\ UNCHANGED <<clock, utime, hostVars, state, bpm, quantize_ms, beats_per_bar, rec_t0_ms, loop,
                            play_t0_ms, last_tick_ms, play_idx, track_len_ms, delivered, sess>>

\* ------------------------------------------------------------ configuration
\* Sequencer.set_bpm(bpm)
set_bpm(b) ==
    /\ bpm' = Max(1, b)
    /\ call' = Other
    /\ UNCHANGED <<clock, utime, hostVars, state, events, quantize_ms, beats_per_bar, rec_t0_ms, loop,
                   play_t0_ms, last_tick_ms, play_idx, track_len_ms, delivered, sess>>

SetBpm == \E b \in BpmArgs : set_bpm(b)

\* set_quantize that snaps the stored events to the new grid.
SetQuantizeResnaps(q) ==
    /\ quantize_ms' = Max(0, q)
    /\ events' = [i \in 1..Len(events) |->
                     [events[i] EXCEPT !.timestamp_ms = _quantize(@, Max(0, q))]]
    /\ call' = Other
    /\ UNCHANGED <<clock, utime, hostVars, state, bpm, beats_per_bar, rec_t0_ms, loop,
                   play_t0_ms, last_tick_ms, play_idx, track_len_ms, delivered, sess>>

\* Sequencer.set_quantize(quantize_ms)
set_quantize(q) ==
    /\ quantize_ms' = Max(0, q)
    /\ call' = Other
    /\ UNCHANGED <<clock, utime, hostVars, state, events, bpm, beats_per_bar, rec_t0_ms, loop,
                   play_t0_ms, last_tick_ms, play_idx, track_len_ms, delivered, sess>>

SetQuantize == \E q \in QuantizeArgs : set_quantize(q)

\* Sequencer.set_loop(loop); a change of the flag during playback ends the
\* session the delivered batches are counted for.
set_loop(lp) ==
    /\ loop' = lp
    /\ call' = Other
    /\ IF lp # loop /\ state = PLAYING
       THEN sess' = None /\ delivered' = <<>>
       ELSE UNCHANGED <<sess, delivered>>
    /\ UNCHANGED <<clock, utime, hostVars, state, events, bpm, quantize_ms, beats_per_bar, rec_t0_ms,
                   play_t0_ms, last_tick_ms, play_idx, track_len_ms>>

SetLoop == \E lp \in BOOLEAN : set_loop(lp)

\* Sequencer.new_track(bpm, quantize_ms); None leaves the setting alone
new_track(b, q) ==
    /\ state' = stop_playback_state(state)
    /\ play_t0_ms' = None
    /\ last_tick_ms' = None
    /\ play_idx' = 0
    /\ events' = <<>>
    /\ track_len_ms' = 0
    /\ bpm' = IF b # None THEN Max(1, Val(b)) ELSE bpm
    /\ quantize_ms' = IF q # None THEN Max(0, Val(q)) ELSE quantize_ms
    /\ call' = Other
    /\ sess' = None
    /\ delivered' = <<>>
    /\ UNCHANGED <<clock, utime, hostVars, beats_per_bar, rec_t0_ms, loop>>

NewTrack ==
    \E b \in {None, Some(60000)} :
    \E q \in {None, Some(2)} : new_track(b, q)

Next ==
    \/ Advance
    \/ Tick
    \/ StartPlayback
    \/ stop_playback
    \/ start_recording
    \/ stop_recording
    \/ record_event
    \/ SetBpm
    \/ SetQuantize
    \/ SetLoop
    \/ NewTrack

Spec == Init /\ [][Next]_vars

\* ------------------------------------------- out-of-range configuration
\* bpm and quantize_ms arguments on both sides of the valid ranges.
AnyBpmArgs == {-5, 0, 120}
AnyQuantizeArgs == {-1, 0, 2}

\* Sequencer.__init__(bpm, quantize_ms, beats_per_bar)
__init__(b, q, n) ==
    /\ state = IDLE
    /\ events = <<>>
    /\ bpm = b
    /\ quantize_ms = Max(0, q)
    /\ beats_per_bar = Max(1, n)
    /\ rec_t0_ms = None
    /\ loop = TRUE
    /\ play_t0_ms = None
    /\ last_tick_ms = None
    /\ play_idx = 0
    /\ track_len_ms = 0
    /\ call = Other
    /\ delivered = <<>>
    /\ sess = None
    /\ HostInit

InitAnyArgs ==
    /\ clock = 0
    /\ utime = FALSE
    /\ \E b \in AnyBpmArgs : \E q \in AnyQuantizeArgs : \E n \in {0, 4} : __init__(b, q, n)

SetBpmAny == \E b \in AnyBpmArgs : set_bpm(b)
SetQuantizeAny == \E q \in AnyQuantizeArgs : set_quantize(q)
NewTrackAny ==
    \E b \in {None, Some(0)} :
    \E q \in {None, Some(-1)} : new_track(b, q)

\* A sequencer that is configured with any arguments and records.
NextAnyArgs ==
    \/ Advance
    \/ start_recording
    \/ stop_recording
    \/ record_event
    \/ SetBpmAny
    \/ SetQuantizeAny
    \/ NewTrackAny

SpecAnyArgs == InitAnyArgs /\ [][NextAnyArgs]_vars

\* ------------------------------------------------------ the utime build
\* The sequencer constructed on MicroPython shortly before the counter wraps.
InitUtime ==
    /\ clock = UtimeBoot
    /\ utime = TRUE
    /\ \E b \in BpmArgs : \E q \in QuantizeArgs : \E n \in BeatsArgs : __init__(b, q, n)

SpecUtime == InitUtime /\ [][Next]_vars

\* ------------------------------------------------------ import / export
\* Row lists an external store hands to import_events_rows: none, and two
\* rows in ascending order.
RowsArgs == {<<>>, << <<0, 1, 50000, 72, Some(200)>>, <<2, 1, 33330, 74, None>> >>}

\* Sequencer.export_events_rows(): the rows of the events, in list order
export_events_rows == [i \in 1..Len(events) |-> to_row(events[i])]

\* import_events_rows as MockSequencer has it: only the events are replaced.
ImportEventsOnly(rows) ==
    /\ events' = [i \in 1..Len(rows) |-> from_row(rows[i])]
    /\ call' = [op |-> "import_events_rows", pre |-> state, rows |-> rows]
    /\ sess' = None
    /\ delivered' = <<>>
    /\ UNCHANGED <<clock, utime, hostVars, state, bpm, quantize_ms, beats_per_bar, rec_t0_ms, loop,
                   play_t0_ms, last_tick_ms, play_idx, track_len_ms>>

\* Sequencer.import_events_rows(rows): the events are replaced by the rows,
\* track_len_ms is the timestamp of the last row, the state is IDLE and the
\* cursors are cleared.
import_events_rows(rows) ==
    /\ events' = [i \in 1..Len(rows) |-> from_row(rows[i])]
    /\ track_len_ms' = IF rows # <<>> THEN rows[Len(rows)][1] ELSE 0
    /\ state' = IDLE
    /\ rec_t0_ms' = None
    /\ play_t0_ms' = None
    /\ last_tick_ms' = None
    /\ play_idx' = 0
    /\ call' = [op |-> "import_events_rows", pre |-> state, rows |-> rows]
    /\ sess' = None
    /\ delivered' = <<>>
    /\ UNCHANGED <<clock, utime, hostVars, bpm, quantize_ms, beats_per_bar, loop>>

\* Controller LOAD: the rows come from the store.
ImportRows == \E rows \in RowsArgs : import_events_rows(rows)

\* import_events_rows(export_events_rows())
ImportExported == import_events_rows(export_events_rows)

\* A sequencer that records, plays, and is saved to and loaded from a store.
NextStore ==
    \/ Advance
    \/ Tick
    \/ StartPlayback
    \/ stop_playback
    \/ start_recording
    \/ stop_recording
    \/ record_event
    \/ ImportRows
    \/ ImportExported

SpecStore == Init /\ [][NextStore]_vars

\* The empty-track branch of tick, applied to loop lengths the recording
\* calls never produce for an empty track: the clock and play_t0_ms are
\* those of a playback of an empty track, the length is drawn.
TrackLenArgs == 1..MaxClock

EmptyLoopTick ==
    /\ state = PLAYING /\ loop /\ events = <<>> /\ play_t0_ms # None
    /\ \E len \in TrackLenArgs :
          call' = [op |-> "empty_loop_tick", t0 |-> Val(play_t0_ms), len |-> len,
                   now |-> clock, out |-> <<>>,
                   t0_after |-> EmptyLoopT0(Val(play_t0_ms), len, clock)]
    /\ UNCHANGED <<clock, utime, hostVars, seqVars, delivered, sess>>

NextEmptyLoop == Advance \/ Tick \/ StartPlayback \/ stop_playback \/ EmptyLoopTick

SpecEmptyLoop == Init /\ [][NextEmptyLoop]_vars

\* A track is recorded and then played once: while it plays, the control
\* loop only reads the clock and calls tick.
Recording == state # PLAYING /\ (start_recording \/ record_event \/ stop_recording)

PlayOnce == state # PLAYING /\ start_playback(FALSE)

NextOnce == Advance \/ Tick \/ Recording \/ PlayOnce

\* The control loop never stops calling tick, and the clock never stops.
SpecOnce == Init /\ [][NextOnce]_vars /\ WF_vars(Tick) /\ WF_vars(Advance)

\* A looping playback whose control loop is held up: between two ticks the
\* clock jumps by up to MaxStall ms, more than a loop period.
Stall ==
    /\ state = PLAYING
    /\ \E k \in 1..MaxStall :
          /\ clock + k <= MaxClock + MaxStall
          /\ clock' = clock + k
    /\ call' = Other
    /\ UNCHANGED <<utime, hostVars, seqVars, delivered, sess>>

PlayLooping == state # PLAYING /\ start_playback(TRUE)

NextStall == Advance \/ Recording \/ PlayLooping \/ Tick \/ Stall

SpecStall == Init /\ [][NextStall]_vars

\* The bench constructs one sequencer configuration.
InitUI == Init /\ bpm = 60000 /\ quantize_ms = 0

\* ------------------------------------------------------------ PWMAudio
\* config/pins.py
MIN_TONE_HZ == 20
MAX_TONE_HZ == 10000

Min(a, b) == IF a < b THEN a ELSE b

\* frequencies in Hz, durations in ms and volumes in hundredths given to
\* the driver
FreqArgs == {0, 10, 440, 20000}
DurationArgs == {0, 5}
VolumeArgs == {-10, 50, 200}

\* the call duty_u16(int(65535 * d)) for a duty cycle of d hundredths
DutyCall(d) == <<"duty", (65535 * Max(0, Min(100, d))) \div 100>>

\* the call freq(int(f)) for a frequency clamped to the tone band
FreqCall(f) == <<"freq", Max(MIN_TONE_HZ, Min(MAX_TONE_HZ, f))>>

\* PWMAudio.stop: the calls it makes
StopCalls == << <<"duty", 0>> >>

\* PWMAudio.set_freq(f) for f > 0 on a driver whose _active is active: the
\* calls it makes
SetFreqCalls(f, active) ==
    <<FreqCall(f)>> \o (IF active THEN <<>> ELSE << <<"duty", 0>> >>)

\* PWMAudio.set_duty(d) on a driver that is active: the calls it makes
SetDutyCalls(d, active) == IF active THEN <<DutyCall(d)>> ELSE <<>>

\* PWMAudio.play_tone(freq_hz, duration_ms, volume)
play_tone(freq_hz, duration_ms, volume) ==
    /\ Len(pwm_calls) < MaxPwmCalls
    /\ pwm_call' = [op |-> "play_tone", start |-> Len(pwm_calls),
                    freq_hz |-> freq_hz, duration_ms |-> duration_ms,
                    volume |-> volume, active |-> pwm_active]
    /\ IF freq_hz <= 0 \/ duration_ms <= 0
       THEN UNCHANGED <<pwm_calls, pwm_active, pwm_freq>>
       ELSE /\ pwm_calls' = pwm_calls \o SetFreqCalls(freq_hz, pwm_active)
                                      \o SetDutyCalls(volume, TRUE)
                                      \o StopCalls
            /\ pwm_active' = FALSE
            /\ pwm_freq' = 0
    /\ UNCHANGED <<clock, utime, seqVars, call, delivered, sess, uiVars, storeVars>>

PlayTone ==
    \E f \in FreqArgs, d \in DurationArgs, v \in VolumeArgs : play_tone(f, d, v)

\* PWMAudio.set_freq(frequency)
set_freq(frequency) ==
    /\ Len(pwm_calls) < MaxPwmCalls
    /\ pwm_call' = [op |-> "set_freq"]
    /\ IF frequency <= 0
       THEN /\ pwm_calls' = pwm_calls \o StopCalls
            /\ pwm_active' = FALSE
            /\ pwm_freq' = 0
       ELSE /\ pwm_calls' = pwm_calls \o SetFreqCalls(frequency, pwm_active)
            /\ pwm_freq' = FreqCall(frequency)[2]
            /\ pwm_active' = TRUE
    /\ UNCHANGED <<clock, utime, seqVars, call, delivered, sess, uiVars, storeVars>>

SetFreq == \E f \in FreqArgs : set_freq(f)

\* PWMAudio.set_duty(duty_cycle_0_1)
set_duty(d) ==
    /\ Len(pwm_calls) < MaxPwmCalls
    /\ pwm_call' = [op |-> "set_duty"]
    /\ pwm_calls' = pwm_calls \o SetDutyCalls(d, pwm_active)
    /\ UNCHANGED <<clock, utime, seqVars, call, delivered, sess, uiVars, storeVars,
                   pwm_active, pwm_freq>>

SetDuty == \E d \in VolumeArgs : set_duty(d)

\* PWMAudio.stop
stop ==
    /\ Len(pwm_calls) < MaxPwmCalls
    /\ pwm_call' = [op |-> "stop"]
    /\ pwm_calls' = pwm_calls \o StopCalls
    /\ pwm_active' = FALSE
    /\ pwm_freq' = 0
    /\ UNCHANGED <<clock, utime, seqVars, call, delivered, sess, uiVars, storeVars>>

NextPwm == PlayTone \/ SetFreq \/ SetDuty \/ stop

SpecPwm == InitUI /\ [][NextPwm]_vars


\* The pattern store used directly, as its tests do, and through the SAVE
\* and LOAD buttons.
StoreNames == {<<"a", " ", "b">>, <<" ", "a", ":", "b", "_">>}

StoreMetadata == {[bpm |-> 120, channels |-> 1], [bpm |-> 90, channels |-> 1]}

\* the rows of 0, 1 or 2 events
StoreRows == {[i \in 1..n |-> to_row(inject_dummy_events(n)[i])] : n \in 0..DummyEvents}

hostFrame == <<utime, seqVars, call, delivered, sess, pwmVars>>

\* store.save(name, metadata, rows) called directly
StoreSaveOf(name, metadata, rows) ==
    LET saved == save(files, name, metadata, rows, clock)
    IN  /\ files' = saved.files
        /\ store_call' = [op |-> "save", name |-> name, metadata |-> metadata,
                          rows |-> rows, raised |-> saved.raised,
                          replaced |-> /\ saved.raised = ""
                                       /\ _path_for(name) \in DOMAIN files
                                       /\ files[_path_for(name)] # saved.files[_path_for(name)]]
        /\ UNCHANGED <<clock, uiVars, hostFrame>>

StoreSave ==
    \E name \in StoreNames, metadata \in StoreMetadata, rows \in StoreRows :
        StoreSaveOf(name, metadata, rows)

\* store.load(name) called directly
StoreLoad ==
    \E name \in StoreNames :
        /\ store_call' = [op |-> "load", name |-> name, result |-> load(files, name)]
        /\ UNCHANGED <<clock, files, uiVars, hostFrame>>

\* store.delete(name) called directly
StoreDelete ==
    \E name \in StoreNames :
        /\ files' = delete(files, name)
        /\ store_call' = [op |-> "delete", name |-> name]
        /\ UNCHANGED <<clock, uiVars, hostFrame>>

\* The storage test overwrites a pattern file with text that is not JSON.
StoreCorrupt ==
    \E name \in StoreNames :
        /\ files' = Put(files, _path_for(name), CorruptText)
        /\ store_call' = Other
        /\ UNCHANGED <<clock, uiVars, hostFrame>>

\* A press of the SAVE button
EnqueueSave == enqueue_button("SAVE")

NextPatterns ==
    \/ StoreSave \/ StoreLoad \/ StoreDelete \/ StoreCorrupt
    \/ EnqueueSave \/ poll \/ InjectDummyEvents \/ Sleep

SpecPatterns == InitUI /\ [][NextPatterns]_vars

\* The pattern store on a file system whose calls can fail: a save of a
\* non-empty pattern during which one call raises OSError, or none does.
StoreSaveFault ==
    \E name \in StoreNames, metadata \in StoreMetadata, rows \in StoreRows \ {<<>>},
       has_replace \in BOOLEAN, fault \in SaveFaults :
        LET saved == safe_write(files, name, JsonText(clock, metadata, rows),
                                has_replace, fault)
        IN  /\ files' = saved.files
            /\ store_call' = [op |-> "save_fault", name |-> name,
                              raised |-> saved.raised, fault |-> fault,
                              has_replace |-> has_replace,
                              before |-> load(files, name)]
            /\ UNCHANGED <<clock, uiVars, hostFrame>>

NextSafeWrite == StoreSaveFault \/ StoreLoad \/ StoreDelete \/ Sleep

SpecSafeWrite == InitUI /\ [][NextSafeWrite]_vars

\* The controller's test bench: a mock sequencer, a mock UI and a pattern
\* store, driven by button presses.
NextUI == EnqueueButton \/ poll \/ InjectDummyEvents \/ Sleep

SpecUI == InitUI /\ [][NextUI]_vars

\* ------------------------------------- Controller and failing collaborators
\* demo_ui_storage_real.py hands the controller a core Sequencer, which has
\* start_recording, stop_recording, start_playback, stop_playback and get_bpm
\* but none of the other methods poll calls: each of these raises
\* AttributeError at the call.
MissingMethods ==
    {"has_content", "panic_all_notes_off", "export_events_rows",
     "import_events_rows", "get_channels"}

\* REC press, the controller driving a Sequencer
OnRecReal ==
    IF ctl_state # "RECORDING"
    THEN Handled("RECORDING", <<"start_recording">>,
                 <<LedLog("REC", TRUE), LedLog("PLAY", FALSE)>>,
                 mock_recording, mock_playing, mock_events, files, pattern_name)
    ELSE Handled("IDLE", <<"stop_recording">>, <<LedLog("REC", FALSE)>>,
                 mock_recording, mock_playing, mock_events, files, pattern_name)

\* PLAY press, the controller driving a Sequencer: has_content is missing
OnPlayReal ==
    IF ctl_state # "PLAYING"
    THEN _error_blink(<<"has_content">>)
    ELSE Handled("IDLE", <<"stop_playback">>, <<LedLog("PLAY", FALSE)>>,
                 mock_recording, mock_playing, mock_events, files, pattern_name)

\* STOP press, the controller driving a Sequencer: panic_all_notes_off is
\* missing, the two stop calls before it are made
OnStopReal ==
    _error_blink(<<"stop_playback", "stop_recording", "panic_all_notes_off">>)

\* SAVE press, the controller driving a Sequencer: export_events_rows is
\* missing
OnSaveReal == _error_blink(<<"export_events_rows">>)

\* LOAD press, the controller driving a Sequencer: import_events_rows is
\* missing
OnLoadReal ==
    LET names == list_patterns(files)
    IN  IF names = <<>>
        THEN _error_blink(<<"list_patterns">>)
        ELSE IF load(files, names[1]).raised # ""
             THEN _error_blink(<<"list_patterns", "load">>)
             ELSE _error_blink(<<"list_patterns", "load", "import_events_rows">>)

\* The handler poll runs for an accepted press, the controller driving a
\* Sequencer
OnPressReal(name) ==
    CASE name = "REC" -> OnRecReal
      [] name = "PLAY" -> OnPlayReal
      [] name = "STOP" -> OnStopReal
      [] name = "SAVE" -> OnSaveReal
      [] name = "LOAD" -> OnLoadReal
      [] OTHER -> OnUnknown

\* The exception the handler of a press of name catches, the controller
\* driving a Sequencer
RealRaised(name) ==
    LET calls == OnPressReal(name).calls
    IN  IF calls # <<>> /\ calls[Len(calls)] \in MissingMethods
        THEN "AttributeError"
        ELSE IF name = "LOAD" /\ list_patterns(files) # <<>>
             THEN load(files, list_patterns(files)[1]).raised
             ELSE ""

\* What the Sequencer calls of the handler leave in the sequencer:
\* start_recording()
SeqStartRecording ==
    /\ state' = RECORDING
    /\ events' = <<>>
    /\ rec_t0_ms' = Some(clock)
    /\ track_len_ms' = 0
    /\ play_t0_ms' = None
    /\ last_tick_ms' = None
    /\ play_idx' = 0
    /\ call' = [op |-> "start_recording", pre |-> state]
    /\ sess' = None
    /\ delivered' = <<>>
    /\ UNCHANGED <<bpm, quantize_ms, beats_per_bar, loop>>

\* stop_playback() followed by stop_recording(); the REC press in RECORDING
\* makes the second call only, which is the same on a sequencer that records
SeqStop ==
    /\ state' = IF state = RECORDING THEN IDLE ELSE stop_playback_state(state)
    /\ track_len_ms' =
         IF state # RECORDING THEN track_len_ms
         ELSE IF loop THEN _round_up(LastT(events), _beat_ms(bpm) * beats_per_bar)
         ELSE LastT(events)
    /\ call' = Other
    /\ UNCHANGED <<events, bpm, quantize_ms, beats_per_bar, rec_t0_ms, loop>>

\* Controller.poll, the controller driving a Sequencer
poll_real ==
    /\ seq_class = "Sequencer"
    /\ Polling(OnPressReal(Head(queue)[1]), RealRaised(Head(queue)[1]))
    /\ LET name == Head(queue)[1]
       IN  IF Debounced(name, Head(queue)[2]) \/ name \notin {"REC", "STOP"}
           THEN UNCHANGED <<seqVars, call, delivered, sess>>
           ELSE IF name = "REC" /\ ctl_state # "RECORDING"
           THEN SeqStartRecording
           ELSE IF name = "REC"
           THEN /\ SeqStop
                /\ UNCHANGED <<play_t0_ms, last_tick_ms, play_idx, delivered, sess>>
           ELSE /\ SeqStop
                /\ play_t0_ms' = None
                /\ last_tick_ms' = None
                /\ play_idx' = 0
                /\ sess' = None
                /\ delivered' = <<>>

\* The file system calls whose OSError leaves save: os.replace where the
\* build has it, os.rename where it has not; the OSError of os.remove is
\* caught inside save.
SaveRaising(has_replace) ==
    {"open", "write"} \cup (IF has_replace THEN {"replace"} ELSE {"rename"})

\* SAVE press at clock now, the controller driving a MockSequencer, with the
\* file system call fault of the save raising OSError
OnSaveFault(now, has_replace, fault) ==
    IF MockExportRows = <<>>
    THEN _error_blink(<<"export_events_rows">>)
    ELSE LET saved == safe_write(files, pattern_name,
                                 JsonText(now, [bpm |-> 120, channels |-> 1],
                                          MockExportRows),
                                 has_replace, fault)
             calls == <<"export_events_rows", "get_bpm", "get_channels", "save">>
         IN  IF saved.raised # ""
             THEN [_error_blink(calls) EXCEPT !.files = saved.files]
             ELSE Handled(ctl_state, calls, flash("SAVE", 2), mock_recording,
                          mock_playing, mock_events, saved.files, pattern_name)

\* Controller.poll of a SAVE press during whose save a file system call
\* raises OSError
poll_save_fault ==
    /\ seq_class = "MockSequencer"
    /\ queue # <<>> /\ Head(queue)[1] = "SAVE"
    /\ \E has_replace \in BOOLEAN :
          \E fault \in SaveRaising(has_replace) :
              Polling(OnSaveFault(clock, has_replace, fault),
                      IF MockExportRows = <<>> THEN "" ELSE "OSError")
    /\ UNCHANGED <<seqVars, call, delivered, sess>>

\* Controller.poll, the controller driving a MockSequencer
poll_mock == seq_class = "MockSequencer" /\ poll

\* The presses of the bench with a MockSequencer that reach the store
EnqueueStoreButton ==
    /\ seq_class = "MockSequencer"
    /\ \E name \in {"SAVE", "LOAD"} : enqueue_button(name)

\* The presses of the demo with a Sequencer
EnqueueRealButton == seq_class = "Sequencer" /\ EnqueueButton

\* Events for the mock sequencer to save
InjectMock == seq_class = "MockSequencer" /\ InjectDummyEvents

\* A pattern file another run left in the directory, intact or corrupt
StoreLeftOver ==
    /\ files = EmptyDict
    /\ \E text \in {CorruptText,
                    JsonText(0, [bpm |-> 120, channels |-> 1],
                             [i \in 1..1 |-> to_row(inject_dummy_events(1)[i])])} :
          files' = Put(files, _path_for(Take1), text)
    /\ store_call' = Other
    /\ UNCHANGED <<clock, uiVars, hostFrame>>

NextFaults ==
    \/ EnqueueStoreButton \/ EnqueueRealButton
    \/ poll_mock \/ poll_save_fault \/ poll_real
    \/ InjectMock \/ StoreLeftOver \/ Sleep

\* The controller is constructed with either class of sequencer.
InitFaults ==
    /\ SeqInit /\ bpm = 60000 /\ quantize_ms = 0
    /\ \E cls \in {"MockSequencer", "Sequencer"} : HostInitOf(cls)

SpecFaults == InitFaults /\ [][NextFaults]_vars


\* ================================================================ properties

IsSorted(evs) == \A i \in 1..(Len(evs) - 1) : evs[i].timestamp_ms <= evs[i + 1].timestamp_ms

\* The events of evs with lo < timestamp_ms <= hi, in list order.
Between(evs, lo, hi) ==
    LET In(e) == lo < e.timestamp_ms /\ e.timestamp_ms <= hi
    IN  SelectSeq(evs, In)

\* The events of evs with timestamp_ms <= hi, in list order.
UpTo(evs, hi) ==
    LET In(e) == e.timestamp_ms <= hi
    IN  SelectSeq(evs, In)

\* The events of evs with timestamp_ms > lo, in list order.
After(evs, lo) ==
    LET In(e) == e.timestamp_ms > lo
    IN  SelectSeq(evs, In)

\* How often e occurs in the sequence s.
Count(e, s) == Cardinality({i \in 1..Len(s) : s[i] = e})

\* A tick was the last call and it ran while PLAYING.
Ticked == call.op = "tick" /\ call.pre = PLAYING /\ call.t0 # None

\* The clock of the previous tick as that tick call saw it.
TickPrev == IF call.prev # None THEN Val(call.prev) ELSE call.now

\* The events of the example of the loop wraparound: 100, 500, 900.
ExLoop == <<NoteEvent(100, 0), NoteEvent(500, 1), NoteEvent(900, 2)>>

\* ---------------------------------------------------------------- C1
\* C1: in a non-looping playback whose ticks do not go back in time, the
\* batches returned up to and including a tick, put one after the other, are
\* exactly the recorded events with timestamp_ms <= now - play_t0_ms, each
\* once, in ascending order.
C1_NonLoopExactlyOnce ==
    (sess # None /\ ~Val(sess).loop /\ Val(sess).ticked)
        => /\ delivered = UpTo(events, Val(sess).last - Val(sess).t0)
           /\ IsSorted(delivered)

\* Reached: a non-looping playback that delivered its three events in more
\* than one batch and stopped.
C1_Witness ==
    /\ call.op = "tick" /\ sess # None /\ ~Val(sess).loop /\ Val(sess).ticked
    /\ Len(delivered) = 3
    /\ Len(call.out) = 1
    /\ delivered[1].timestamp_ms < delivered[3].timestamp_ms

\* ---------------------------------------------------------------- C2
\* The number of loop passes in which an event at timestamp ts has become
\* due when `elapsed` ms of a playback with period len have gone by.
PassesDue(elapsed, ts, len) == IF elapsed >= ts THEN ((elapsed - ts) \div len) + 1 ELSE 0

\* C2: in a looping playback with track_len_ms > 0 whose ticks are
\* non-decreasing and less than one period apart, every recorded event has
\* been returned exactly once for every loop pass in which it has become due,
\* the first pass and an event at 0 or at track_len_ms included.
C2_LoopOncePerPass ==
    (sess # None /\ Val(sess).loop /\ Val(sess).ticked /\ track_len_ms > 0)
        => \A i \in 1..Len(events) :
              Count(events[i], delivered)
                = PassesDue(Val(sess).last - Val(sess).t0, events[i].timestamp_ms, track_len_ms)

\* ---------------------------------------------------------------- C3
\* C3: a looping tick whose phase t_in is not before the phase prev_in of
\* the previous tick returns exactly the events with
\* prev_in < timestamp_ms <= t_in, in list order; with a 1000 ms track
\* holding 100, 500, 900 started at 0, tick(950) returns the three events
\* and tick(1050) returns nothing.
C3_LoopNoWrap ==
    /\ (Ticked /\ loop /\ track_len_ms > 0)
         => LET t_in == (call.now - Val(call.t0)) % track_len_ms
                prev_in == (TickPrev - Val(call.t0)) % track_len_ms
            IN  t_in >= prev_in => call.out = Between(events, prev_in, t_in)
    /\ TickOut(PLAYING, ExLoop, TRUE, 1000, Some(0), Some(0), 0, 950) = ExLoop
    /\ TickOut(PLAYING, ExLoop, TRUE, 1000, Some(0), Some(950), 3, 1050) = <<>>

\* Reached: a looping tick without wrap that returned some but not all events.
C3_Witness ==
    /\ Ticked /\ loop /\ track_len_ms > 0
    /\ (call.now - Val(call.t0)) % track_len_ms > (TickPrev - Val(call.t0)) % track_len_ms
    /\ call.out # <<>>
    /\ Len(call.out) < Len(events)

\* ---------------------------------------------------------------- C4
\* C4: a looping tick whose phase t_in is before the phase prev_in of the
\* previous tick returns the events with timestamp_ms > prev_in followed by
\* the events with timestamp_ms <= t_in.
C4_LoopWrap ==
    (Ticked /\ loop /\ track_len_ms > 0)
        => LET t_in == (call.now - Val(call.t0)) % track_len_ms
               prev_in == (TickPrev - Val(call.t0)) % track_len_ms
           IN  t_in < prev_in => call.out = After(events, prev_in) \o UpTo(events, t_in)

\* Reached: a tick across the loop boundary that returned a tail and a head.
C4_Witness ==
    /\ Ticked /\ loop /\ track_len_ms > 0
    /\ (call.now - Val(call.t0)) % track_len_ms < (TickPrev - Val(call.t0)) % track_len_ms
    /\ Len(call.out) >= 2
    /\ call.out[1].timestamp_ms > call.out[Len(call.out)].timestamp_ms

\* ---------------------------------------------------------------- C5
\* C5: with loop = false, the tick whose elapsed time reaches the last
\* recorded timestamp leaves the state IDLE with the playback cursors
\* cleared, and the ticks after it return nothing: whatever number of them
\* was made, the batches returned since start_playback are the recorded
\* events once.
C5_NonLoopAutoStop ==
    /\ (Ticked /\ ~loop /\ events # <<>> /\ call.now - Val(call.t0) >= LastT(events))
         => /\ state = IDLE
            /\ play_t0_ms = None
            /\ last_tick_ms = None
            /\ play_idx = 0
    /\ (sess # None /\ ~Val(sess).loop /\ state = IDLE /\ events # <<>>)
         => /\ delivered = events
            /\ TickOut(state, events, loop, track_len_ms, play_t0_ms, last_tick_ms, play_idx, clock) = <<>>

\* Reached: events at 0 and 2, one tick returned both and stopped the playback.
C5_Witness ==
    /\ Ticked /\ ~loop /\ state = IDLE
    /\ Len(events) = 2
    /\ events[1].timestamp_ms = 0 /\ events[2].timestamp_ms = 2
    /\ call.out = events

\* Reached: a tick after the automatic stop.
C5_WitnessAfter ==
    /\ state = IDLE /\ call = Other
    /\ sess # None /\ ~Val(sess).loop
    /\ Val(sess).last = clock /\ Val(sess).last - Val(sess).t0 > LastT(events)
    /\ delivered = events /\ events # <<>>

\* A record_event was the last call and it stored an event.
Recorded == call.op = "record_event" /\ call.pre = RECORDING

\* The event stored by the last record_event of the session.
Newest == CHOOSE e \in {events[i] : i \in 1..Len(events)} : e.seq = Len(events) - 1

\* The 1-based position of the event e in the list.
PosOf(e) == CHOOSE i \in 1..Len(events) : events[i] = e

Abs(x) == IF x >= 0 THEN x ELSE -x

\* ---------------------------------------------------------------- C6
\* C6: in every reachable state the event list is ascending (non-decreasing)
\* by timestamp_ms.
C6_Sorted == IsSorted(events)

\* Reached: an event that arrived with an earlier timestamp than two stored
\* ones and was put in front of them.
C6_Witness ==
    /\ Recorded
    /\ Len(events) = 3
    /\ PosOf(Newest) = 1
    /\ events[1].timestamp_ms < events[2].timestamp_ms

\* ---------------------------------------------------------------- C7
\* Events with equal timestamps are stored in the order they were recorded.
TiesInOrder ==
    \A i, j \in 1..Len(events) :
        (i < j /\ events[i].timestamp_ms = events[j].timestamp_ms) => events[i].seq < events[j].seq

\* A record_event leaves the events already stored in the order they had.
RecordKeepsOrder ==
    (call'.op = "record_event" /\ call'.pre = RECORDING)
        => LET Old(e) == e.seq # Len(events)
           IN  SelectSeq(events', Old) = events

\* C7: of two recorded events with equal timestamp_ms the one passed to
\* record_event earlier is earlier in the list, and an insertion never
\* reorders the events already stored.
C7_StableInsertion == [](TiesInOrder) /\ [][RecordKeepsOrder]_vars

\* Reached: an event inserted in the middle of the list, behind a stored
\* event of the same timestamp.
C7_Witness ==
    /\ Recorded
    /\ Len(events) = 3
    /\ PosOf(Newest) = 2
    /\ events[1].timestamp_ms = events[2].timestamp_ms

\* ---------------------------------------------------------------- C8
\* C8: with quantize_ms = q > 0 the stored timestamp of an event recorded t ms
\* into the track is ((t + q/2) // q) * q in integer arithmetic; it is a
\* multiple of q, at most q/2 away from t, and an exact half rounds up; with
\* quantize_ms = 0 it is t.
C8_QuantizedRecording ==
    Recorded =>
        LET t  == clock - Val(rec_t0_ms)
            q  == quantize_ms
            ts == Newest.timestamp_ms
        IN  /\ q > 0 => /\ ts = ((t + (q \div 2)) \div q) * q
                        /\ ts % q = 0
                        /\ 2 * Abs(ts - t) <= q
                        /\ (2 * (t % q) = q) => ts = t + (q \div 2)
            /\ q = 0 => ts = t

\* Reached: an event recorded exactly half a grid step after a grid point
\* and stored on the next grid point.
C8_Witness ==
    /\ Recorded
    /\ quantize_ms = 2
    /\ clock - Val(rec_t0_ms) = 1
    /\ Newest.timestamp_ms = 2

\* ---------------------------------------------------------------- C9
\* C9: quantizing a quantized timestamp again on the same grid changes
\* nothing: for the timestamp just stored and for every t from 0 to the clock.
C9_QuantizeIdempotent ==
    quantize_ms > 0 =>
        /\ Recorded => _quantize(Newest.timestamp_ms, quantize_ms) = Newest.timestamp_ms
        /\ \A t \in 0..clock :
              _quantize(_quantize(t, quantize_ms), quantize_ms) = _quantize(t, quantize_ms)

\* Reached: an event stored on a 3 ms grid at a timestamp other than its
\* arrival time.
C9_Witness ==
    /\ Recorded
    /\ quantize_ms = 3
    /\ Newest.timestamp_ms # clock - Val(rec_t0_ms)

\* ---------------------------------------------------------------- C10
\* A stop_recording was the last call and it ended a recording.
StoppedRecording == call.op = "stop_recording" /\ call.pre = RECORDING

\* x is a whole multiple of b, for b >= 0.
IsMultipleOf(x, b) == IF b = 0 THEN x = 0 ELSE x % b = 0

\* x is the smallest multiple of b that is >= low.
SmallestMultipleFrom(x, b, low) ==
    /\ IsMultipleOf(x, b)
    /\ x >= low
    /\ \A m \in low..(x - 1) : ~IsMultipleOf(m, b)

\* C10 as claimed: stop_recording while RECORDING with the loop flag true
\* sets track_len_ms to the smallest multiple of
\* bar_ms = (60000 // bpm) * beats_per_bar that is >= the last timestamp.
C10_BarRounding ==
    (StoppedRecording /\ loop /\ bpm >= 1)
        => SmallestMultipleFrom(track_len_ms, (60000 \div bpm) * beats_per_bar, LastT(events))

\* C10 as amended: the rounding is done when bar_ms > 0; when bar_ms = 0
\* (bpm > 60000) track_len_ms is the last timestamp itself.  With bpm = 120
\* and 4 beats per bar a last event at 2300 gives 4000.
C10_BarRoundingPositiveBar ==
    /\ (StoppedRecording /\ loop /\ bpm >= 1)
         => LET bar_ms == (60000 \div bpm) * beats_per_bar
                last   == LastT(events)
            IN  /\ bar_ms > 0 => /\ SmallestMultipleFrom(track_len_ms, bar_ms, last)
                                 /\ track_len_ms < last + bar_ms
                /\ bar_ms = 0 => track_len_ms = last
    /\ _round_up(2300, _beat_ms(120) * 4) = 4000

\* Reached: a recording whose last event is on a bar boundary after the
\* start: the track is not made a bar longer.
C10_Witness ==
    /\ StoppedRecording /\ loop /\ bpm = 60000
    /\ LastT(events) = 2
    /\ track_len_ms = 2

\* Reached: a recording whose last event is off the bar, rounded up.
C10_WitnessRounded ==
    /\ StoppedRecording /\ loop /\ bpm = 60000
    /\ LastT(events) = 3
    /\ track_len_ms = 4

\* ---------------------------------------------------------------- C11
\* C11: stop_recording while RECORDING with the loop flag false sets
\* track_len_ms to the timestamp of the last event of the list (0 when the
\* list is empty); with either loop flag the state becomes IDLE and the
\* event list is the one the call found.
C11_StopRecordingNoLoop ==
    /\ [](StoppedRecording =>
            /\ state = IDLE
            /\ ~loop => track_len_ms = (IF events = <<>> THEN 0
                                        ELSE events[Len(events)].timestamp_ms))
    /\ [][call'.op = "stop_recording" => (events' = events /\ state = RECORDING)]_vars

\* Reached: a recording stopped with the loop flag off whose last event is
\* 1 ms into a 2 ms bar: the length is 1, not the bar.
C11_Witness ==
    /\ StoppedRecording /\ ~loop
    /\ _beat_ms(bpm) * beats_per_bar = 2
    /\ Len(events) = 2
    /\ events[1].timestamp_ms = 0
    /\ events[2].timestamp_ms = 1
    /\ track_len_ms = 1

\* Reached: a recording without events stopped with the loop flag off.
C11_WitnessEmpty == StoppedRecording /\ ~loop /\ events = <<>> /\ track_len_ms = 0

\* ---------------------------------------------------------------- C12
StoppedPlayback == call.op = "stop_playback"

\* C12 as claimed: a second stop_playback, or a second stop_recording, in a
\* row changes no field of the sequencer, and the state after a
\* stop_playback is IDLE.
C12_DoubleStopIdle ==
    /\ [](StoppedPlayback => state = IDLE)
    /\ [][(StoppedPlayback /\ stop_playback) => UNCHANGED seqVars]_vars
    /\ [][(StoppedRecording /\ stop_recording) => UNCHANGED seqVars]_vars

\* C12 as amended: a second stop in a row changes no field of the
\* sequencer; stop_playback ends a playback and leaves a recording alone, so
\* the state after it is IDLE unless it was RECORDING, and it clears the
\* playback cursors; the state after a stop_recording that follows a
\* stop_recording made while RECORDING is IDLE.
C12_DoubleStop ==
    /\ [](StoppedPlayback =>
            /\ state = (IF call.pre = RECORDING THEN RECORDING ELSE IDLE)
            /\ play_t0_ms = None /\ last_tick_ms = None /\ play_idx = 0)
    /\ [][(StoppedPlayback /\ stop_playback) => UNCHANGED seqVars]_vars
    /\ [][(StoppedRecording /\ stop_recording) => (UNCHANGED seqVars /\ state' = IDLE)]_vars

\* Reached: stop_playback called twice in a row during a playback; the
\* second call finds the state IDLE.
C12_Witness ==
    /\ StoppedPlayback /\ call.after = Some(PLAYING) /\ call.pre = IDLE
    /\ events # <<>> /\ track_len_ms > 0

\* Reached: stop_playback called during a recording.
C12_WitnessRecording == StoppedPlayback /\ call.pre = RECORDING /\ events # <<>>

\* ---------------------------------------------------------------- C13
\* The track length stop_recording computes with the loop flag lp.
TrackLenPolicy(lp) ==
    IF lp THEN _round_up(LastT(events), _beat_ms(bpm) * beats_per_bar) ELSE LastT(events)

\* C13: a start_playback called while RECORDING leaves the state PLAYING and
\* the track length stop_recording would have computed from the recording
\* (with the loop flag as it was, or as the call sets it).
C13_StartPlaybackStopsRecording ==
    [][\A lp \in BOOLEAN :
         (state = RECORDING /\ start_playback(lp))
            => /\ state' = PLAYING
               /\ track_len_ms' \in {TrackLenPolicy(loop), TrackLenPolicy(lp)}]_vars

\* ---------------------------------------------------------------- C14
StartedRecording == call.op = "start_recording"

\* C14: after start_recording, whatever the state it was called in, the
\* state is RECORDING, the event list is empty, track_len_ms is 0, rec_t0_ms
\* is the clock, and the playback cursors are cleared.
C14_StartRecording ==
    StartedRecording =>
        /\ state = RECORDING
        /\ events = <<>>
        /\ track_len_ms = 0
        /\ rec_t0_ms = Some(clock)
        /\ play_t0_ms = None /\ last_tick_ms = None /\ play_idx = 0

\* Reached: start_recording called during a playback, after the clock moved.
C14_Witness == StartedRecording /\ call.pre = PLAYING /\ clock > 0

\* Reached: start_recording called during a recording and in IDLE.
C14_WitnessRecording == StartedRecording /\ call.pre = RECORDING /\ clock > 0
C14_WitnessIdle == StartedRecording /\ call.pre = IDLE /\ clock > 0

\* ---------------------------------------------------------------- C15
\* C15: a record_event made while the state is not RECORDING changes no
\* field of the sequencer; a tick made while the state is not PLAYING
\* returns the empty list and changes no field. The two step formulas are
\* written in the contrapositive: a step from a wrong state that changes a
\* field is not a record_event, respectively not a tick.
C15_WrongStateNoOp ==
    /\ [](state # PLAYING =>
            TickOut(state, events, loop, track_len_ms, play_t0_ms, last_tick_ms,
                    play_idx, clock) = <<>>)
    /\ [][(state # RECORDING /\ seqVars' # seqVars) => ~record_event]_vars
    /\ [][(state # PLAYING /\ (seqVars' # seqVars \/ call' # Other)) => ~Tick]_vars

\* Reached: a stopped recording with events, where record_event and tick
\* are both wrong-state calls and rec_t0_ms is still set.
C15_Witness ==
    /\ state = IDLE /\ events # <<>> /\ Len(events) < MaxEvents
    /\ rec_t0_ms # None /\ track_len_ms > 0
    /\ call = Other

\* Reached: a recording, where tick is a wrong-state call.
C15_WitnessRecording == state = RECORDING /\ events # <<>> /\ call = Other

\* ---------------------------------------------------------------- C16
\* C16: in every state, from the construction on and after any set_bpm,
\* set_quantize or new_track, get_bpm() >= 1 and get_quantize() >= 0.
C16_ConfigValid == bpm >= 1 /\ quantize_ms >= 0

\* What holds of the configuration: quantize_ms is never negative, and bpm
\* is at least 1 once set_bpm or new_track(bpm) has set it.
C16_QuantizeValid == quantize_ms >= 0
C16_SettersClamp == [][bpm' # bpm => bpm' >= 1]_vars

\* ---------------------------------------------------------------- C17
\* The milliseconds that passed since the counter read c: every reading the
\* sequencer holds was taken since the construction, at most MaxClock ms ago.
Forward(c) == (clock - c) % TicksPeriod

\* C17: with the counter of the utime build, which wraps at TicksPeriod, the
\* timestamp record_event stores is the true time since start_recording
\* (quantized), and the elapsed times tick computes from now and from the
\* previous tick are the true times since play_t0_ms, so that a looping tick
\* returns the events between the two true phases and a non-looping tick
\* leaves the cursor behind the events due at the true elapsed time.
C17_WrapSafe ==
    /\ Recorded =>
         /\ Forward(Val(rec_t0_ms)) <= MaxClock
         /\ Newest.timestamp_ms = Stamp(Forward(Val(rec_t0_ms)), quantize_ms)
    /\ Ticked =>
         LET elapsed == Forward(Val(call.t0))
             before  == (TickPrev - Val(call.t0)) % TicksPeriod
         IN  /\ call.now = clock
             /\ elapsed <= MaxClock /\ before <= elapsed
             /\ ticks_diff(call.now, Val(call.t0)) = elapsed
             /\ ticks_diff(TickPrev, Val(call.t0)) = before
             /\ (events # <<>> /\ loop /\ track_len_ms > 0)
                   => call.out = LoopDue(events, before % track_len_ms, elapsed % track_len_ms)
             /\ (events # <<>> /\ ~(loop /\ track_len_ms > 0))
                   => /\ \A i \in 1..Len(call.out) : call.out[i].timestamp_ms <= elapsed
                      /\ state = PLAYING => play_idx = Len(UpTo(events, elapsed))

\* Reached: an event recorded after the counter wrapped since start_recording.
C17_Witness ==
    /\ utime /\ Recorded
    /\ clock < Val(rec_t0_ms)
    /\ Newest.timestamp_ms > 0

\* Reached: a tick after the counter wrapped since start_playback that
\* returns an event.
C17_WitnessTick ==
    /\ utime /\ Ticked
    /\ call.now < Val(call.t0)
    /\ call.out # <<>>

\* ---------------------------------------------------------------- C18
Imported == call.op = "import_events_rows"

C19_WitnessRecording == Imported /\ call.pre = RECORDING /\ call.rows # <<>>

\* ---------------------------------------------------------------- C20
\* C20: after stop_playback the state is not PLAYING and the playback
\* cursors are cleared; while the state is not PLAYING a tick returns the
\* empty list, and only start_playback makes it PLAYING; start_playback
\* puts the cursor at the first event and the start of the track at the
\* clock, and the ticks after it return only events due since that start:
\* without looping those up to the time elapsed since it, with looping those
\* between the phases of the previous and of this tick.
C20_StopImmediate ==
    /\ [](StoppedPlayback =>
            /\ state # PLAYING
            /\ play_t0_ms = None /\ last_tick_ms = None /\ play_idx = 0)
    /\ [](state # PLAYING =>
            TickOut(state, events, loop, track_len_ms, play_t0_ms, last_tick_ms,
                    play_idx, clock) = <<>>)
    /\ [][(state # PLAYING /\ state' = PLAYING) => StartPlayback]_vars
    /\ [][StartPlayback =>
            /\ state' = PLAYING
            /\ play_idx' = 0
            /\ play_t0_ms' = Some(clock)
            /\ last_tick_ms' = Some(clock)
            /\ delivered' = <<>>]_vars
    /\ [](Ticked =>
            LET elapsed == call.now - Val(call.t0)
                before  == TickPrev - Val(call.t0)
            IN  IF loop /\ track_len_ms > 0
                THEN events # <<>> =>
                        call.out = LoopDue(events, before % track_len_ms, elapsed % track_len_ms)
                ELSE \A i \in 1..Len(call.out) : call.out[i].timestamp_ms <= elapsed)

\* Reached: a non-looping playback stopped after its first event was
\* delivered and before the last one was.
C20_Witness ==
    /\ StoppedPlayback /\ call.pre = PLAYING /\ ~loop
    /\ 0 < call.idx /\ call.idx < Len(events)
    /\ state = IDLE

\* Reached: the first tick of a playback started later than the clock's
\* start, returning the event at the start of the track only.
C20_WitnessRestart ==
    /\ Ticked /\ ~loop /\ Val(call.t0) > 1 /\ call.now = Val(call.t0)
    /\ Len(events) > 1 /\ Len(call.out) = 1

\* ------------------------------------------------------------- C21..C30
\* The last poll handled an accepted press of the button name.
Accepted(name) == polled.op = "poll" /\ polled.name = name /\ polled.accepted

\* The last poll called the method c of the sequencer or the store.
Called(c) == \E i \in DOMAIN polled.calls : polled.calls[i] = c

\* The last poll flashed the LED name.
Flashed(name) == \E i \in DOMAIN polled.log : polled.log[i] = LedLog(name, TRUE)

C21_WitnessPlaying == Accepted("STOP") /\ polled.pre = "PLAYING"

C21_WitnessIdle == Accepted("STOP") /\ polled.pre = "IDLE"

\* C22: an accepted PLAY press that finds the controller not PLAYING and the
\* sequencer without content flashes ERR, does not call start_playback, and
\* ends with the PLAY LED off and the controller IDLE.
C22_PlayWithoutContent ==
    (Accepted("PLAY") /\ polled.pre # "PLAYING" /\ ~polled.content) =>
        /\ Flashed("ERR")
        /\ ~Called("start_playback")
        /\ ~mock_playing
        /\ ~led["PLAY"]
        /\ ctl_state = "IDLE"

C22_Witness == Accepted("PLAY") /\ polled.pre = "IDLE" /\ ~polled.content

C22_WitnessRecording == Accepted("PLAY") /\ polled.pre = "RECORDING" /\ ~polled.content

\* C23: an accepted REC press that finds the controller not RECORDING calls
\* start_recording, turns the REC LED on and sets the controller RECORDING;
\* an accepted REC press that finds it RECORDING, as the next accepted press
\* after that one does, calls stop_recording, turns the REC LED off and sets
\* the controller IDLE.
C23_RecToggles ==
    Accepted("REC") =>
        IF polled.pre # "RECORDING"
        THEN /\ Called("start_recording") /\ ~Called("stop_recording")
             /\ mock_recording
             /\ led["REC"]
             /\ ctl_state = "RECORDING"
        ELSE /\ Called("stop_recording") /\ ~Called("start_recording")
             /\ ~mock_recording
             /\ ~led["REC"]
             /\ ctl_state = "IDLE"

C23_Witness == Accepted("REC") /\ polled.pre = "RECORDING" /\ ctl_state = "IDLE"

C23_WitnessStart == Accepted("REC") /\ polled.pre = "IDLE" /\ ctl_state = "RECORDING"

C23_WitnessFromPlaying == Accepted("REC") /\ polled.pre = "PLAYING"

\* What a discarded press must leave alone: the controller state and
\* pattern name, the LEDs, the sequencer and the store.
pressVars == <<ctl_state, pattern_name, led, mock_events, mock_recording,
               mock_playing, files, last_press_ms>>

\* A step of poll: the press at the head of the queue is taken off.
Polls == queue # <<>> /\ queue' = Tail(queue)

C24_WitnessOtherButton ==
    /\ Accepted("PLAY")
    /\ "REC" \in DOMAIN last_press_ms
    /\ last_press_ms["REC"] = last_press_ms["PLAY"]

\* C25: after a save of a non-empty event list succeeds, load of the same
\* name returns the metadata and the rows that were saved, in order, and
\* list_patterns holds the pattern's name once; this is also so when the
\* save replaces a pattern stored earlier under that name.
C25_StoreRoundTrip ==
    (store_call.op = "save" /\ store_call.raised = "") =>
        LET got == load(files, store_call.name)
            names == list_patterns(files)
        IN  /\ got.raised = ""
            /\ got.metadata = store_call.metadata
            /\ got.events = store_call.rows
            /\ Cardinality({i \in DOMAIN names :
                               names[i] = _sanitize_name(store_call.name)}) = 1

C25_Witness ==
    /\ store_call.op = "save" /\ store_call.raised = ""
    /\ store_call.replaced
    /\ Len(store_call.rows) = DummyEvents

C25_WitnessTwoPatterns ==
    /\ store_call.op = "save" /\ store_call.raised = ""
    /\ Len(list_patterns(files)) = 2

\* C26: save called with an empty event list raises ValueError and leaves
\* every stored pattern as it was; an accepted SAVE press when the sequencer
\* exports no rows flashes ERR, calls no save and leaves the store as it was.
C26_EmptySave ==
    [][/\ (store_call'.op = "save" /\ store_call'.rows = <<>>)
            => (store_call'.raised = "ValueError" /\ files' = files)
       /\ (poll /\ Head(queue)[1] = "SAVE" /\ polled'.accepted /\ MockExportRows = <<>>)
            => /\ \E i \in DOMAIN polled'.log : polled'.log[i] = LedLog("ERR", TRUE)
               /\ \A i \in DOMAIN polled'.calls : polled'.calls[i] # "save"
               /\ files' = files
      ]_vars

C26_Witness ==
    /\ store_call.op = "save" /\ store_call.rows = <<>>
    /\ store_call.raised = "ValueError"
    /\ files # EmptyDict

C26_WitnessPress ==
    /\ Accepted("SAVE") /\ ~polled.content /\ Flashed("ERR")
    /\ files # EmptyDict

\* The PWM calls the last play_tone made.
ToneCalls == SubSeq(pwm_calls, pwm_call.start + 1, Len(pwm_calls))

\* C27: play_tone with a positive frequency and duration first sets the duty
\* to 0, then the frequency, then the requested duty, and ends by setting
\* the duty to 0 again.
C27_PopSafeOrder ==
    (pwm_call.op = "play_tone" /\ pwm_call.freq_hz > 0 /\ pwm_call.duration_ms > 0) =>
        /\ Len(ToneCalls) >= 4
        /\ ToneCalls[1] = <<"duty", 0>>
        /\ ToneCalls[2] = FreqCall(pwm_call.freq_hz)
        /\ ToneCalls[3] = DutyCall(pwm_call.volume)
        /\ ToneCalls[Len(ToneCalls)] = <<"duty", 0>>

\* The clock of the model reaches the end of the track being played.
EndInReach == Val(play_t0_ms) + LastT(events) <= MaxClock

\* C28: once a track, empty or not, is played without looping and tick keeps
\* being called while the clock advances, the state becomes IDLE.
C28_NonLoopingEnds ==
    (state = PLAYING /\ ~loop /\ (events = <<>> \/ EndInReach)) ~> (state = IDLE)

\* A non-looping playback of a track that has events does end.
NonEmptyEnds ==
    (state = PLAYING /\ ~loop /\ events # <<>> /\ EndInReach) ~> (state = IDLE)

\* No tick ends the playback of an empty track.
EmptyNeverEnds ==
    [][(state = PLAYING /\ events = <<>> /\ Tick) => state' = PLAYING]_vars

\* C29: a call made while PLAYING that leaves the state PLAYING (tick,
\* record_event, a setter, a restart of the playback) leaves the event list,
\* and with it every stored timestamp, as it was.
C29_EventsReadOnly ==
    [][(state = PLAYING /\ state' = PLAYING) => events' = events]_vars

C29_Witness ==
    /\ state = PLAYING /\ call.op = "tick" /\ call.pre = PLAYING
    /\ call.out # <<>> /\ Len(events) >= 2

C29_WitnessSetter ==
    /\ state = PLAYING /\ events # <<>> /\ quantize_ms > 0
    /\ \E i \in DOMAIN events : _quantize(events[i].timestamp_ms, quantize_ms) # events[i].timestamp_ms

\* C30: rec_t0_ms is set exactly when the state is RECORDING.
C30_RecCursorOnlyRecording == (rec_t0_ms # None) <=> (state = RECORDING)

\* rec_t0_ms is set whenever the state is RECORDING.
RecCursorWhileRecording == (state = RECORDING) => (rec_t0_ms # None)

\* stop_recording leaves the recording cursor set in IDLE.
StaleCursorIdle == state = IDLE /\ rec_t0_ms # None /\ call.op = "stop_recording"

\* ------------------------------------------------------------- C31..C39
\* A track without events has no length: the empty-track branch of tick
\* never finds track_len_ms > 0.
EmptyTrackHasNoLength == (events = <<>>) => (track_len_ms = 0)

C31_WitnessWithinPeriod ==
    /\ call.op = "empty_loop_tick"
    /\ call.now - call.t0 < call.len /\ call.now > call.t0
    /\ call.t0_after = call.t0

\* C32: a looping tick returns no recorded event more than once, however
\* long the time since the previous tick; and in a playback that has had a
\* tick more than a loop period after the one before, this tick and the
\* ticks after it return exactly the events between the loop phases of the
\* previous tick and of this one.
C32_LongStall ==
    (Ticked /\ loop /\ track_len_ms > 0) =>
        LET t_in == (call.now - Val(call.t0)) % track_len_ms
            prev_in == (TickPrev - Val(call.t0)) % track_len_ms
        IN  /\ \A i \in 1..Len(events) : Count(events[i], call.out) <= 1
            /\ Len(call.out) <= Len(events)
            /\ sess = None =>
                  call.out = IF t_in >= prev_in
                             THEN Between(events, prev_in, t_in)
                             ELSE After(events, prev_in) \o UpTo(events, t_in)

\* Reached: a tick more than one period after the previous one that returned
\* events, each once.
C32_Witness ==
    /\ Ticked /\ loop /\ track_len_ms > 0 /\ state = PLAYING
    /\ call.now - TickPrev > track_len_ms
    /\ call.out # <<>>

\* Reached: after such a tick, a tick within the period that wraps and
\* returns a tail and a head.
C32_WitnessNext ==
    /\ Ticked /\ loop /\ track_len_ms > 0 /\ state = PLAYING
    /\ sess = None
    /\ call.now - TickPrev < track_len_ms
    /\ (call.now - Val(call.t0)) >= 2 * track_len_ms
    /\ Len(call.out) >= 2
    /\ call.out[1].timestamp_ms > call.out[Len(call.out)].timestamp_ms

\* Reached: a tick a whole number of periods after the previous one.
C32_WitnessWholePeriods ==
    /\ Ticked /\ loop /\ track_len_ms > 0
    /\ call.now - TickPrev >= track_len_ms
    /\ (call.now - TickPrev) % track_len_ms = 0
    /\ Len(events) >= 2

\* A save during which a file system call raised OSError
SaveFailed == store_call.op = "save_fault" /\ store_call.raised = "OSError"

\* No temporary file and no partly written file is in the directory.
NoTmpLeft ==
    \A k \in DOMAIN files : k[2] = ".json" /\ files[k] # PartialText

\* C33: after a save that failed with OSError at any of its file system
\* calls, no .tmp file is left, the pattern saved before under that name
\* loads with the content it had, and no file holds a partly written
\* pattern.
C33_SafeWrite ==
    SaveFailed =>
        /\ NoTmpLeft
        /\ store_call.before.raised = "" =>
              load(files, store_call.name) = store_call.before

\* What holds of every failed save: no .tmp file and no partly written file
\* remain, and on a build with os.replace the previous pattern is kept.
SafeWriteWithReplace ==
    /\ NoTmpLeft
    /\ (SaveFailed /\ store_call.has_replace /\ store_call.before.raised = "") =>
          load(files, store_call.name) = store_call.before

\* Reached: on a build without os.replace, os.rename fails after the final
\* file was removed, and the pattern saved before is gone.
PreviousPatternLost ==
    /\ SaveFailed /\ ~store_call.has_replace /\ store_call.fault = "rename"
    /\ store_call.before.raised = ""
    /\ load(files, store_call.name).raised = "FileNotFoundError"

\* Reached: a failed os.replace leaves the pattern saved before in place.
ReplaceFailedKeepsPattern ==
    /\ SaveFailed /\ store_call.has_replace /\ store_call.fault = "replace"
    /\ store_call.before.raised = ""
    /\ load(files, store_call.name) = store_call.before

\* C34: play_t0_ms and last_tick_ms are both set exactly when the state is
\* PLAYING, and play_idx is 0 whenever the state is not PLAYING.
C34_PlayCursorsMatchState ==
    /\ (play_t0_ms # None /\ last_tick_ms # None) <=> (state = PLAYING)
    /\ (play_t0_ms # None) <=> (last_tick_ms # None)
    /\ (state # PLAYING) => (play_idx = 0)

\* Reached: a playback whose cursor had advanced was stopped, and the
\* cursors are cleared.
C34_Witness ==
    /\ call.op = "stop_playback" /\ call.pre = PLAYING
    /\ state = IDLE /\ events # <<>>
    /\ play_t0_ms = None /\ last_tick_ms = None /\ play_idx = 0
    /\ call.idx > 0

\* Reached: a non-looping playback ended by itself in tick.
C34_WitnessAutoStop ==
    /\ call.op = "tick" /\ call.pre = PLAYING /\ state = IDLE
    /\ play_t0_ms = None /\ play_idx = 0

\* Reached: a recording started during a playback.
C34_WitnessRecordOver ==
    /\ call.op = "start_recording" /\ call.pre = PLAYING /\ state = RECORDING
    /\ play_t0_ms = None

\* Reached: a playback with the cursor past the first event.
C34_WitnessPlaying ==
    state = PLAYING /\ play_idx > 0 /\ play_t0_ms # None /\ last_tick_ms # None

\* C35: whenever the state is not RECORDING and events are held, track_len_ms
\* is at least the timestamp of the last event.
C35_EventsInsidePeriod ==
    (state # RECORDING /\ events # <<>>) => track_len_ms >= LastT(events)

\* Reached: a looping recording was stopped with its last event off the bar
\* grid, and the length is the next bar boundary.
C35_Witness ==
    /\ call.op = "stop_recording" /\ state = IDLE /\ loop
    /\ events # <<>> /\ LastT(events) > 0
    /\ track_len_ms > LastT(events)

\* Reached: a playback started during a recording derives the length from
\* the last event.
C35_WitnessPlayOverRecording ==
    /\ state = PLAYING /\ sess # None /\ events # <<>>
    /\ LastT(events) > 0 /\ track_len_ms = LastT(events)
    /\ rec_t0_ms # None

\* Reached: a non-looping recording was stopped, the length is the last
\* timestamp.
C35_WitnessOnce ==
    /\ call.op = "stop_recording" /\ state = IDLE /\ ~loop
    /\ Len(events) >= 2 /\ track_len_ms = LastT(events) /\ LastT(events) > 0

\* A step of new_track made while PLAYING: the track is emptied and the
\* state becomes IDLE.
NewTrackWhilePlaying ==
    /\ state = PLAYING /\ state' = IDLE
    /\ events' = <<>> /\ track_len_ms' = 0
    /\ play_t0_ms' = None /\ call' = Other

\* C36: a tick made while PLAYING with loop set leaves the state PLAYING,
\* whatever the events and the length are; and a step that leaves PLAYING is
\* a stop_playback, a start_recording, a new_track, or a tick with loop
\* cleared.
C36_LoopingNeverStops ==
    [][(state = PLAYING /\ state' # PLAYING) =>
          /\ ~(loop /\ call'.op = "tick")
          /\ \/ call'.op \in {"stop_playback", "start_recording"}
             \/ NewTrackWhilePlaying
             \/ (call'.op = "tick" /\ ~loop)]_vars

\* Reached: a looping tick went past the last event and the playback goes on.
C36_Witness ==
    /\ Ticked /\ loop /\ state = PLAYING /\ events # <<>>
    /\ track_len_ms > 0 /\ call.now - Val(call.t0) > LastT(events)

\* Reached: a looping tick on a track of length 0 that delivered all its
\* events and goes on.
C36_WitnessZeroLength ==
    /\ Ticked /\ loop /\ state = PLAYING /\ events # <<>>
    /\ track_len_ms = 0 /\ play_idx = Len(events)

\* Reached: a tick with loop cleared delivered the last event and ended the
\* playback.
C36_WitnessLoopCleared ==
    /\ call.op = "tick" /\ call.pre = PLAYING /\ state = IDLE /\ ~loop
    /\ events # <<>> /\ call.out # <<>>

\* C37: after every poll the REC LED is on exactly when the controller
\* state is RECORDING, the PLAY LED is on exactly when it is PLAYING, and
\* the state is IDLE, RECORDING or PLAYING.
C37_LedsMirrorState ==
    (polled.op = "poll") =>
        /\ led["REC"] <=> (ctl_state = "RECORDING")
        /\ led["PLAY"] <=> (ctl_state = "PLAYING")
        /\ ctl_state \in {"IDLE", "RECORDING", "PLAYING"}

\* What holds after every poll: the state is never ERROR, RECORDING has the
\* REC LED on and the PLAY LED off, PLAYING has the PLAY LED on and the REC
\* LED off, and the ERR, SAVE and LOAD LEDs are off.
StateLightsItsLed ==
    /\ ctl_state \in {"IDLE", "RECORDING", "PLAYING"}
    /\ (ctl_state = "RECORDING") => (led["REC"] /\ ~led["PLAY"])
    /\ (ctl_state = "PLAYING") => (led["PLAY"] /\ ~led["REC"])
    /\ ~led["ERR"] /\ ~led["SAVE"] /\ ~led["LOAD"]

\* Reached: a PLAY press during a recording with nothing to play ends in an
\* error blink: the controller is IDLE and the REC LED stays on.
RecLedOnWhileIdle ==
    /\ polled.op = "poll" /\ polled.name = "PLAY" /\ polled.accepted
    /\ polled.pre = "RECORDING" /\ Flashed("ERR")
    /\ ctl_state = "IDLE" /\ led["REC"]

\* Reached: a LOAD press with an empty store during a playback ends in an
\* error blink: the controller is IDLE and the PLAY LED stays on.
PlayLedOnWhileIdle ==
    /\ polled.op = "poll" /\ polled.name = "LOAD" /\ polled.accepted
    /\ polled.pre = "PLAYING" /\ Flashed("ERR")
    /\ ctl_state = "IDLE" /\ led["PLAY"]

\* C38: after every poll the controller state is RECORDING exactly when the
\* sequencer it drives is recording, and PLAYING exactly when the sequencer
\* is playing.
C38_ControllerSequencerAgree ==
    (polled.op = "poll") =>
        /\ (ctl_state = "RECORDING") <=> mock_recording
        /\ (ctl_state = "PLAYING") <=> mock_playing

\* What holds after every poll: a controller in RECORDING has a recording
\* sequencer, a controller in PLAYING a playing one.
ControllerStateImpliesSequencer ==
    /\ (ctl_state = "RECORDING") => mock_recording
    /\ (ctl_state = "PLAYING") => mock_playing

\* Reached: an error blink during a recording leaves the sequencer recording
\* under an IDLE controller.
SequencerRecordingWhileIdle ==
    /\ polled.op = "poll" /\ polled.accepted /\ polled.pre = "RECORDING"
    /\ Flashed("ERR")
    /\ ctl_state = "IDLE" /\ mock_recording

\* Reached: an error blink during a playback leaves the sequencer playing
\* under an IDLE controller.
SequencerPlayingWhileIdle ==
    /\ polled.op = "poll" /\ polled.accepted /\ polled.pre = "PLAYING"
    /\ Flashed("ERR")
    /\ ctl_state = "IDLE" /\ mock_playing

\* Reached: a REC press during a playback: the controller is RECORDING and
\* the mock sequencer records and still plays.
MockPlaysUnderRecording ==
    /\ Accepted("REC") /\ polled.pre = "PLAYING"
    /\ ctl_state = "RECORDING" /\ mock_recording /\ mock_playing

\* An accepted poll: the only step that writes _last_press_ms.
AcceptedPoll == last_press_ms' # last_press_ms

C39_WitnessSave ==
    /\ Accepted("SAVE") /\ polled.raised = "OSError" /\ Called("save")
    /\ Flashed("ERR") /\ ~Flashed("SAVE") /\ ctl_state = "IDLE"

\* Reached: a corrupt file in load.
C39_WitnessCorrupt ==
    /\ Accepted("LOAD") /\ polled.raised = "IOError" /\ Called("load")
    /\ Flashed("ERR") /\ ctl_state = "IDLE"

\* Reached: a missing method at the first call of the handler.
C39_WitnessFirstCall ==
    /\ seq_class = "Sequencer" /\ Accepted("PLAY")
    /\ polled.raised = "AttributeError" /\ polled.pre = "RECORDING"
    /\ polled.calls = <<"has_content">> /\ Flashed("ERR")
    /\ ctl_state = "IDLE" /\ state = RECORDING /\ queue = <<>>

\* Reached with the core Sequencer: a PLAY press during a recording fails on
\* the missing has_content; the controller is IDLE, the sequencer records on.
RealSequencerRecordingWhileIdle ==
    /\ seq_class = "Sequencer" /\ Accepted("PLAY") /\ polled.pre = "RECORDING"
    /\ ctl_state = "IDLE" /\ state = RECORDING

====
